---- MODULE Spec2Model ----
(***************************************************************************)
(* Model of the AI-to-database query mediation layer of the dashboard:     *)
(* the resource whitelist (lib/ai/validation/table-whitelist.ts), the      *)
(* intent schema (lib/ai/schema.ts), the validation pipeline               *)
(* (validateQuery / validateSummarization), the query executor             *)
(* (lib/ai/functions/query-database.ts) and the orchestrator tools         *)
(* (lib/ai/client.ts, lib/ai/schema.ts).                                   *)
(*                                                                         *)
(* JavaScript strings are TLA+ strings, read character by character with   *)
(* SubSeq; a missing optional array is the empty sequence (the code treats *)
(* both alike: `x && x.length > 0`, a loop over nothing); a missing string *)
(* is the value Undefined.                                                 *)
(***************************************************************************)
EXTENDS Integers, Sequences, FiniteSets, TLC

(* ---------------------------------------------------------------------- *)
(* Bounds of the model                                                     *)
(* ---------------------------------------------------------------------- *)
MaxFilters == 1
MaxAggregations == 1

(* ---------------------------------------------------------------------- *)
(* String primitives (String.prototype / RegExp behaviour)                 *)
(* ---------------------------------------------------------------------- *)
Undefined == "<undefined>"

LowerChars == "abcdefghijklmnopqrstuvwxyz"
UpperChars == "ABCDEFGHIJKLMNOPQRSTUVWXYZ"
DigitChars == "0123456789"
HexLetters == "abcdefABCDEF"
\* the class ['"`;] of the third injection pattern; the backquote cannot be
\* written in a TLA+ string and no string of the model holds one
QuoteChars == "'\";"
SpaceChars == " \t\n"

CharAt(s, i) == SubSeq(s, i, i)

\* Math.min
Min(a, b) == IF a < b THEN a ELSE b

InChars(c, set) == \E i \in 1..Len(set) : CharAt(set, i) = c

\* \w of a JavaScript regular expression
IsWordChar(c) == InChars(c, LowerChars) \/ InChars(c, UpperChars)
                 \/ InChars(c, DigitChars) \/ c = "_"

IsHexChar(c) == InChars(c, DigitChars) \/ InChars(c, HexLetters)

ToLowerChar(c) ==
  IF InChars(c, UpperChars)
    THEN CharAt(LowerChars, CHOOSE i \in 1..26 : CharAt(UpperChars, i) = c)
    ELSE c

RECURSIVE ToLowerCase(_)
ToLowerCase(s) ==
  IF Len(s) = 0 THEN ""
  ELSE ToLowerChar(CharAt(s, 1)) \o ToLowerCase(SubSeq(s, 2, Len(s)))

\* String.prototype.includes
Includes(s, sub) ==
  \E i \in 1..(Len(s) - Len(sub) + 1) : SubSeq(s, i, i + Len(sub) - 1) = sub

\* sub occurs in s starting at position i
StartsAt(s, sub, i) ==
  /\ i >= 1
  /\ i + Len(sub) - 1 <= Len(s)
  /\ SubSeq(s, i, i + Len(sub) - 1) = sub

\* \b between position i-1 and position i of s
WordBoundary(s, i) ==
  LET before == i - 1 >= 1 /\ i - 1 <= Len(s) /\ IsWordChar(CharAt(s, i - 1))
      after  == i >= 1 /\ i <= Len(s) /\ IsWordChar(CharAt(s, i))
  IN before # after

\* \s+ starting at position i of s: the set of positions right after the run
AfterSpaces(s, i) ==
  { j \in (i + 1)..(Len(s) + 1) :
      \A k \in i..(j - 1) : InChars(CharAt(s, k), SpaceChars) }

\* \d+ starting at position i of s: the set of positions right after the run
AfterDigits(s, i) ==
  { j \in (i + 1)..(Len(s) + 1) :
      \A k \in i..(j - 1) : InChars(CharAt(s, k), DigitChars) }

(* ---------------------------------------------------------------------- *)
(* The values intents and contexts are drawn from                          *)
(* ---------------------------------------------------------------------- *)
\* a filter value: a string or a number
StrVal(s) == [t |-> "str", s |-> s, n |-> 0]
NumVal(n) == [t |-> "num", s |-> "", n |-> n]

T1 == "123e4567-e89b-12d3-a456-426614174000"
T2 == "9F8B7C6D-0000-4ABC-8DEF-0123456789AB"

\* tenant ids a context can carry: missing, empty, malformed, well-formed
OrgIds == {Undefined, "", "tenant-1", T1, T2}

TableNames == {"customers", "organizations", "audit_logs", "secrets", "constructor", ""}

FilterCandidates ==
  { [column |-> "status",    operator |-> "eq",   value |-> StrVal("active")],
    [column |-> "amount",    operator |-> "gt",   value |-> NumVal(60)],
    [column |-> "pass-word", operator |-> "eq",   value |-> StrVal("x")],
    [column |-> "sta tus",   operator |-> "ne",   value |-> StrVal("active")],
    [column |-> "status",    operator |-> "eq",   value |-> StrVal("1=1' OR '1'='1")],
    [column |-> "status",    operator |-> "like", value |-> StrVal("active")] }

AggregationCandidates ==
  { [field |-> "amount",     function |-> "sum"],
    [field |-> "secret_key", function |-> "count"],
    [field |-> "amount",     function |-> "median"] }

\* <<groupBy, orderBy>> as the intent carries them
GroupingCandidates ==
  { << <<>>, <<>> >>,
    << <<"status">>, <<[field |-> "created_at", direction |-> "desc"]>> >>,
    << <<"password_hash">>, <<>> >>,
    << <<>>, <<[field |-> "api_token", direction |-> "asc"]>> >> }

StringCandidates == {"drop table customers", "hello"}

\* every string an intent of the model can hold
IntentStrings ==
  TableNames \cup StringCandidates
  \cup { f.column : f \in FilterCandidates } \cup { f.operator : f \in FilterCandidates }
  \cup { f.value.s : f \in FilterCandidates }
  \cup { a.field : a \in AggregationCandidates }
  \cup { a.function : a \in AggregationCandidates }
  \cup UNION { { g[1][i] : i \in 1..Len(g[1]) } : g \in GroupingCandidates }
  \cup UNION { { g[2][i].field : i \in 1..Len(g[2]) } : g \in GroupingCandidates }
  \cup UNION { { g[2][i].direction : i \in 1..Len(g[2]) } : g \in GroupingCandidates }

(* ---------------------------------------------------------------------- *)
(* Resource whitelist (table-whitelist.ts)                                 *)
(* ---------------------------------------------------------------------- *)
allowedTables ==
  [ organizations    |-> {"count"},
    profiles         |-> {"count"},
    customers        |-> {"count", "sum", "avg", "min", "max"},
    revenue          |-> {"count", "sum", "avg", "min", "max"},
    activities       |-> {"count", "sum", "avg", "min", "max"},
    audit_logs       |-> {"count"},
    ai_usage_log     |-> {"count", "sum"},
    user_preferences |-> {"count"} ]

\* names every JavaScript object inherits, which `name in allowedTables` finds
ObjectPrototypeKeys == {"constructor", "toString", "hasOwnProperty"}

SENSITIVE_COLUMNS ==
  <<"password", "secret", "token", "key", "credential", "private_key", "api_secret">>

RESTRICTED_TABLES == {"audit_logs", "ai_usage_log"}

isTableAllowed(tableName) ==
  tableName \in DOMAIN allowedTables \/ tableName \in ObjectPrototypeKeys

getAllowedColumns(tableName) ==
  IF ~isTableAllowed(tableName) THEN <<>>
  ELSE IF tableName \in RESTRICTED_TABLES THEN <<"id", "created_at", "updated_at">>
  ELSE <<>>

\* allowedTables[tableName].aggregates; an inherited key has no `aggregates`
\* (the callers' `.includes` then throws, see includesThrows)
getAllowedAggregates(tableName) ==
  IF ~isTableAllowed(tableName) THEN {}
  ELSE IF tableName \in DOMAIN allowedTables THEN allowedTables[tableName]
  ELSE {}

\* column.replace(/[^a-zA-Z0-9_]/g, '')
RECURSIVE StripNonWord(_)
StripNonWord(s) ==
  IF Len(s) = 0 THEN ""
  ELSE (IF IsWordChar(CharAt(s, 1)) THEN CharAt(s, 1) ELSE "")
         \o StripNonWord(SubSeq(s, 2, Len(s)))

IsSensitive(sanitized) ==
  \E i \in 1..Len(SENSITIVE_COLUMNS) :
    Includes(ToLowerCase(sanitized), ToLowerCase(SENSITIVE_COLUMNS[i]))

\* sanitizeColumnName: the sanitized name, or a thrown Error
sanitizeColumnName(column) ==
  LET sanitized == StripNonWord(column)
  IN IF IsSensitive(sanitized)
       THEN [threw |-> TRUE, value |-> ""]
       ELSE [threw |-> FALSE, value |-> sanitized]

\* sanitizeColumnName of every column an intent of the model names, computed once
Sanitized ==
  [c \in { f.column : f \in FilterCandidates } \cup { a.field : a \in AggregationCandidates }
          \cup UNION { { g[1][i] : i \in 1..Len(g[1]) } : g \in GroupingCandidates }
          \cup UNION { { g[2][i].field : i \in 1..Len(g[2]) } : g \in GroupingCandidates }
     |-> sanitizeColumnName(c)]

SeqContains(seq, x) == \E i \in 1..Len(seq) : seq[i] = x

RECURSIVE invalidColumnsOf(_, _)
invalidColumnsOf(tableName, columns) ==
  IF Len(columns) = 0 THEN <<>>
  ELSE LET column == Head(columns)
           allowedColumns == getAllowedColumns(tableName)
           invalid ==
             IF Sanitized[column].threw THEN TRUE
             ELSE /\ Len(allowedColumns) > 0
                  /\ ~SeqContains(allowedColumns, column)
                  /\ tableName \notin RESTRICTED_TABLES
       IN (IF invalid THEN <<column>> ELSE <<>>)
            \o invalidColumnsOf(tableName, Tail(columns))

validateColumnAccess(tableName, columns) ==
  LET invalidColumns == invalidColumnsOf(tableName, columns)
  IN [valid |-> Len(invalidColumns) = 0, invalidColumns |-> invalidColumns]

(* ---------------------------------------------------------------------- *)
(* Injection patterns and tenant id format (pipeline)                      *)
(* ---------------------------------------------------------------------- *)
SqlKeywords ==
  {"select", "insert", "update", "delete", "drop", "truncate", "alter",
   "create", "exec", "execute", "union", "join", "--", "/*"}

\* /(\b)(select|insert|...|--|\/\*)/i
MatchesKeyword(s) ==
  LET lower == ToLowerCase(s)
  IN \E i \in 1..Len(s) : /\ WordBoundary(s, i)
                          /\ \E k \in SqlKeywords : StartsAt(lower, k, i)

\* /(\b)(or\s+\d+=\d+|and\s+\d+=\d+)/i
MatchesTautology(s) ==
  \E i \in 1..Len(s) :
    /\ WordBoundary(s, i)
    /\ \E w \in {"or", "and"} :
         /\ StartsAt(ToLowerCase(s), w, i)
         /\ \E a \in AfterSpaces(s, i + Len(w)) :
              \E b \in AfterDigits(s, a) :
                /\ StartsAt(s, "=", b)
                /\ AfterDigits(s, b + 1) # {}

\* /(['"`;].*?['"`;])/
MatchesQuotes(s) ==
  \E i \in 1..Len(s) : \E j \in (i + 1)..Len(s) :
    /\ InChars(CharAt(s, i), QuoteChars)
    /\ InChars(CharAt(s, j), QuoteChars)
    /\ \A k \in (i + 1)..(j - 1) : CharAt(s, k) # "\n"

\* /(\b)(xp_|sp_|exec\s+)/i
MatchesProcedure(s) ==
  \E i \in 1..Len(s) :
    /\ WordBoundary(s, i)
    /\ \/ StartsAt(ToLowerCase(s), "xp_", i)
       \/ StartsAt(ToLowerCase(s), "sp_", i)
       \/ StartsAt(ToLowerCase(s), "exec", i) /\ AfterSpaces(s, i + 4) # {}

\* /(\b)(0x[0-9a-fA-F]+)/i
MatchesHex(s) ==
  \E i \in 1..Len(s) :
    /\ WordBoundary(s, i)
    /\ StartsAt(ToLowerCase(s), "0x", i)
    /\ i + 2 <= Len(s)
    /\ IsHexChar(CharAt(s, i + 2))

\* containsSqlInjection on a string value
containsSqlInjection(s) ==
  \/ MatchesKeyword(s)
  \/ MatchesTautology(s)
  \/ MatchesQuotes(s)
  \/ MatchesProcedure(s)
  \/ MatchesHex(s)

\* containsSqlInjection of every string of the model, computed once
Injection == [s \in IntentStrings |-> containsSqlInjection(s)]

\* /^[0-9a-f]{8}-[0-9a-f]{4}-[0-9a-f]{4}-[0-9a-f]{4}-[0-9a-f]{12}$/i
uuidRegex(s) ==
  /\ Len(s) = 36
  /\ \A i \in 1..36 :
       IF i \in {9, 14, 19, 24} THEN CharAt(s, i) = "-"
       ELSE IsHexChar(CharAt(s, i))

\* uuidRegex.test of every tenant id of the model, computed once
UuidTest == [o \in OrgIds |-> uuidRegex(o)]

(* ---------------------------------------------------------------------- *)
(* Intent schema (schema.ts) and its validator (schema-validator.ts)       *)
(* ---------------------------------------------------------------------- *)
OPERATORS == {"eq", "ne", "gt", "lt", "gte", "lte", "contains", "in"}
AGGREGATION_FUNCTIONS == {"count", "sum", "avg", "min", "max"}
SUMMARY_TYPES == {"trend", "comparison", "anomaly", "summary"}
TONES == {"neutral", "insightful", "actionable"}

\* z.enum([...]) of queryDatabaseSchema.table
TableEnum ==
  {"organizations", "profiles", "customers", "revenue", "activities",
   "audit_logs", "ai_usage_log", "user_preferences"}

\* z.number().min(1).max(1000) of baseTableSchema.limit
LIMIT_MIN == 1
LIMIT_CEILING == 1000

\* an intent as the model emits it: null, a bare string, or an object
\* page and pageSize are keys the schema does not know; 0 stands for a missing
\* limit, page or pageSize
NullParams ==
  [kind |-> "null", str |-> "", table |-> "", filters |-> <<>>,
   aggregations |-> <<>>, groupBy |-> <<>>, orderBy |-> <<>>,
   limit |-> 0, page |-> 0, pageSize |-> 0]
StringParams(s) == [NullParams EXCEPT !.kind = "string", !.str = s]
ObjectParams(table, filters, aggregations, limit, page, pageSize) ==
  [kind |-> "object", str |-> "", table |-> table, filters |-> filters,
   aggregations |-> aggregations, groupBy |-> <<>>, orderBy |-> <<>>,
   limit |-> limit, page |-> page, pageSize |-> pageSize]

\* the same intent with groupBy and orderBy arrays
WithGrouping(params, groupBy, orderBy) ==
  [params EXCEPT !.groupBy = groupBy, !.orderBy = orderBy]

ORDER_DIRECTIONS == {"asc", "desc"}

\* z.object strips the keys the schema does not name
StripUnknown(params) == [params EXCEPT !.page = 0, !.pageSize = 0]

RECURSIVE filterIssues(_, _)
filterIssues(filters, i) ==
  IF i > Len(filters) THEN <<>>
  ELSE LET f == filters[i]
           path == "filters." \o ToString(i - 1)
       IN (IF Len(f.column) < 1
             THEN <<"Field '" \o path \o ".column': Column name is required">>
             ELSE <<>>)
          \o (IF f.operator \notin OPERATORS
                THEN <<"Field '" \o path \o ".operator': Operator must be one of: eq, ne, gt, lt, gte, lte, contains, in">>
                ELSE <<>>)
          \o filterIssues(filters, i + 1)

RECURSIVE orderByIssues(_, _)
orderByIssues(orderBy, i) ==
  IF i > Len(orderBy) THEN <<>>
  ELSE LET o == orderBy[i]
           path == "orderBy." \o ToString(i - 1)
       IN (IF Len(o.field) < 1
             THEN <<"Field '" \o path \o ".field': Order by field is required">>
             ELSE <<>>)
          \o (IF o.direction \notin ORDER_DIRECTIONS
                THEN <<"Field '" \o path \o ".direction': Invalid enum value">>
                ELSE <<>>)
          \o orderByIssues(orderBy, i + 1)

RECURSIVE aggregationIssues(_, _)
aggregationIssues(aggregations, i) ==
  IF i > Len(aggregations) THEN <<>>
  ELSE LET a == aggregations[i]
           path == "aggregations." \o ToString(i - 1)
       IN (IF Len(a.field) < 1
             THEN <<"Field '" \o path \o ".field': Aggregation field is required">>
             ELSE <<>>)
          \o (IF a.function \notin AGGREGATION_FUNCTIONS
                THEN <<"Field '" \o path \o ".function': Function must be one of: count, sum, avg, min, max">>
                ELSE <<>>)
          \o aggregationIssues(aggregations, i + 1)

\* the schema with `table: z.string()` in place of the enum
tableSchemaIssuesAnyTable(params, tableMessage) ==
  IF params.kind = "null" THEN <<"Field '': Expected object, received null">>
  ELSE IF params.kind = "string" THEN <<"Field '': Expected object, received string">>
  ELSE filterIssues(params.filters, 1)
       \o aggregationIssues(params.aggregations, 1)
       \o orderByIssues(params.orderBy, 1)
       \o (IF params.limit # 0 /\ (params.limit < LIMIT_MIN \/ params.limit > LIMIT_CEILING)
             THEN <<"Field 'limit': Limit must be between 1 and 1000">>
             ELSE <<>>)

\* the issues zod reports for baseTableSchema.extend({table: z.enum([...])})
tableSchemaIssues(params, tableMessage) ==
  IF params.kind = "null" THEN <<"Field '': Expected object, received null">>
  ELSE IF params.kind = "string" THEN <<"Field '': Expected object, received string">>
  ELSE filterIssues(params.filters, 1)
       \o aggregationIssues(params.aggregations, 1)
       \o orderByIssues(params.orderBy, 1)
       \o (IF params.limit # 0 /\ (params.limit < LIMIT_MIN \/ params.limit > LIMIT_CEILING)
             THEN <<"Field 'limit': Limit must be between 1 and 1000">>
             ELSE <<>>)
       \o (IF params.table \notin TableEnum
             THEN <<"Field 'table': " \o tableMessage>>
             ELSE <<>>)

\* validateSchema(params, queryDatabaseSchema, options)
validateQueryDatabaseParams(params) ==
  LET issues == tableSchemaIssues(params, "Invalid table name")
  IN [success |-> Len(issues) = 0, data |-> StripUnknown(params), errors |-> issues]

(* ---------------------------------------------------------------------- *)
(* Validation pipeline (validateQuery, validateSummarization)              *)
(* ---------------------------------------------------------------------- *)
Err(stage, message) == [stage |-> stage, message |-> message]

RECURSIVE StageErrors(_, _)
StageErrors(stage, messages) ==
  IF Len(messages) = 0 THEN <<>>
  ELSE <<Err(stage, Head(messages))>> \o StageErrors(stage, Tail(messages))

\* !context.orgId
Falsy(s) == s = Undefined \/ s = ""

\* validateRLSContext without the UUID format check
validateRLSContextPresenceOnly(orgId) ==
  IF Falsy(orgId)
    THEN <<Err("rls_context", "Organization ID (org_id) is required for RLS enforcement")>>
    ELSE <<>>

\* validateRLSContext without the presence check
validateRLSContextFormatOnly(orgId) ==
  IF ~Falsy(orgId) /\ ~UuidTest[orgId]
    THEN <<Err("rls_context", "Invalid organization ID format")>>
    ELSE <<>>

validateRLSContext(orgId) ==
  (IF Falsy(orgId)
     THEN <<Err("rls_context", "Organization ID (org_id) is required for RLS enforcement")>>
     ELSE <<>>)
  \o (IF ~Falsy(orgId) /\ ~UuidTest[orgId]
        THEN <<Err("rls_context", "Invalid organization ID format")>>
        ELSE <<>>)

InjectionFinding(s, path) ==
  IF Injection[s]
    THEN <<Err("sql_injection", "Potential SQL injection detected in " \o path)>>
    ELSE <<>>

RECURSIVE filterFindings(_, _)
filterFindings(filters, i) ==
  IF i > Len(filters) THEN <<>>
  ELSE LET f == filters[i]
           path == "filters[" \o ToString(i - 1) \o "]"
       IN InjectionFinding(f.column, path \o ".column")
          \o InjectionFinding(f.operator, path \o ".operator")
          \o (IF f.value.t = "str" THEN InjectionFinding(f.value.s, path \o ".value")
              ELSE <<>>)
          \o filterFindings(filters, i + 1)

RECURSIVE aggregationFindings(_, _)
aggregationFindings(aggregations, i) ==
  IF i > Len(aggregations) THEN <<>>
  ELSE LET a == aggregations[i]
           path == "aggregations[" \o ToString(i - 1) \o "]"
       IN InjectionFinding(a.field, path \o ".field")
          \o InjectionFinding(a.function, path \o ".function")
          \o aggregationFindings(aggregations, i + 1)

RECURSIVE groupByFindings(_, _)
groupByFindings(groupBy, i) ==
  IF i > Len(groupBy) THEN <<>>
  ELSE InjectionFinding(groupBy[i], "groupBy[" \o ToString(i - 1) \o "]")
       \o groupByFindings(groupBy, i + 1)

RECURSIVE orderByFindings(_, _)
orderByFindings(orderBy, i) ==
  IF i > Len(orderBy) THEN <<>>
  ELSE LET path == "orderBy[" \o ToString(i - 1) \o "]"
       IN InjectionFinding(orderBy[i].field, path \o ".field")
          \o InjectionFinding(orderBy[i].direction, path \o ".direction")
          \o orderByFindings(orderBy, i + 1)

\* checkObject without the recursion into arrays
checkSqlInjectionTopLevel(params) ==
  IF params.kind = "null" THEN <<>>
  ELSE IF params.kind = "string" THEN InjectionFinding(params.str, "")
  ELSE InjectionFinding(params.table, "table")

\* checkSqlInjection: checkObject over the raw params, one finding per leaf
checkSqlInjection(params) ==
  IF params.kind = "null" THEN <<>>
  ELSE IF params.kind = "string" THEN InjectionFinding(params.str, "")
  ELSE InjectionFinding(params.table, "table")
       \o filterFindings(params.filters, 1)
       \o aggregationFindings(params.aggregations, 1)
       \o groupByFindings(params.groupBy, 1)
       \o orderByFindings(params.orderBy, 1)

\* the value a FullValidationResult carries; hasData is `data !== undefined`
Result(success, hasData, data, stage, errors, warnings) ==
  [threw |-> FALSE, success |-> success, hasData |-> hasData, data |-> data,
   stage |-> stage, errors |-> errors, warnings |-> warnings]

\* the call rejected: an exception left the function instead of a result
Threw ==
  [threw |-> TRUE, success |-> FALSE, hasData |-> FALSE, data |-> NullParams,
   stage |-> "none", errors |-> <<>>, warnings |-> <<>>]

RECURSIVE columnsOf(_)
columnsOf(filters) ==
  IF Len(filters) = 0 THEN <<>>
  ELSE <<Head(filters).column>> \o columnsOf(Tail(filters))

RECURSIVE sanitizeWarnings(_)
sanitizeWarnings(filters) ==
  IF Len(filters) = 0 THEN <<>>
  ELSE LET column == Head(filters).column
           sanitizedColumn == Sanitized[column].value
       IN (IF sanitizedColumn # column
             THEN <<"Column '" \o column \o "' was sanitized to '" \o sanitizedColumn \o "'">>
             ELSE <<>>)
          \o sanitizeWarnings(Tail(filters))

RECURSIVE aggregateWarnings(_, _)
aggregateWarnings(tableName, aggregations) ==
  IF Len(aggregations) = 0 THEN <<>>
  ELSE (IF Head(aggregations).function \notin getAllowedAggregates(tableName)
          THEN <<"Aggregation '" \o Head(aggregations).function
                   \o "' may not be supported for table '" \o tableName \o "'">>
          ELSE <<>>)
       \o aggregateWarnings(tableName, Tail(aggregations))

\* the last statement of validateQuery
finalResult(data, currentStage, errors, warnings) ==
  Result(Len(errors) = 0,
         Len(errors) = 0,
         IF Len(errors) = 0 THEN data ELSE NullParams,
         IF Len(errors) = 0 THEN "passed" ELSE currentStage,
         errors, warnings)

\* the last two stages with `currentStage = 'sql_injection'` left out
contextAndInjectionStageKept(params, orgId, abortEarly, data, stage0, errors0, warnings) ==
  LET rlsErrors == validateRLSContext(orgId)
      stage1 == IF Len(rlsErrors) > 0 THEN "rls_context" ELSE stage0
      errors1 == errors0 \o rlsErrors
  IN IF Len(rlsErrors) > 0 /\ abortEarly
       THEN Result(FALSE, TRUE, data, stage1, errors1, <<>>)
       ELSE finalResult(data, stage1, errors1 \o checkSqlInjection(params), warnings)

\* the stages of validateQuery after the table block
contextAndInjection(params, orgId, abortEarly, data, stage0, errors0, warnings) ==
  LET rlsErrors == validateRLSContext(orgId)
      stage1 == IF Len(rlsErrors) > 0 THEN "rls_context" ELSE stage0
      errors1 == errors0 \o rlsErrors
  IN IF Len(rlsErrors) > 0 /\ abortEarly
       THEN Result(FALSE, TRUE, data, stage1, errors1, <<>>)
       ELSE LET injectionErrors == checkSqlInjection(params)
                stage2 == IF Len(injectionErrors) > 0 THEN "sql_injection" ELSE stage1
            IN finalResult(data, stage2, errors1 \o injectionErrors, warnings)

\* the block `if (queryParams.table) { ... }` of validateQuery and what follows
tableBlock(params, orgId, abortEarly, data, stage0, errors0) ==
  LET tableAllowed == isTableAllowed(data.table)
      stage1 == IF tableAllowed THEN stage0 ELSE "table_whitelist"
      errors1 == errors0 \o
        (IF tableAllowed THEN <<>>
         ELSE <<Err("table_whitelist", "Table '" \o data.table \o "' is not accessible")>>)
      columnValidation == validateColumnAccess(data.table, columnsOf(data.filters))
      columnFailed == ~columnValidation.valid /\ Len(columnValidation.invalidColumns) > 0
      stage2 == IF columnFailed THEN "column_validation" ELSE stage1
      errors2 == errors1 \o
        (IF columnFailed THEN <<Err("column_validation", "Invalid columns")>> ELSE <<>>)
      \* the loop that calls sanitizeColumnName outside any try
      sanitizeThrows ==
        \E i \in 1..Len(data.filters) : Sanitized[data.filters[i].column].threw
      \* allowedAggregates.includes on an undefined `aggregates`
      includesThrows ==
        Len(data.aggregations) > 0 /\ data.table \notin DOMAIN allowedTables
                                   /\ isTableAllowed(data.table)
  IN IF ~tableAllowed /\ abortEarly
       THEN Result(FALSE, TRUE, data, stage1, errors1, <<>>)
     ELSE IF sanitizeThrows \/ includesThrows THEN Threw
     ELSE contextAndInjection(params, orgId, abortEarly, data, stage2, errors2,
            sanitizeWarnings(data.filters)
              \o aggregateWarnings(data.table, data.aggregations))

validateQuery(params, orgId, abortEarly) ==
  LET schemaResult == validateQueryDatabaseParams(params)
      schemaErrors == StageErrors("schema", schemaResult.errors)
      stage0 == IF schemaResult.success THEN "passed" ELSE "schema"
      data == IF schemaResult.success THEN schemaResult.data ELSE params
  IN IF ~schemaResult.success /\ abortEarly
       THEN Result(FALSE, TRUE, params, "schema", schemaErrors, <<>>)
     \* queryParams.table on null: TypeError
     ELSE IF data.kind = "null" THEN Threw
     ELSE IF data.kind = "object" /\ data.table # ""
       THEN tableBlock(params, orgId, abortEarly, data, stage0, schemaErrors)
     ELSE contextAndInjection(params, orgId, abortEarly, data, stage0, schemaErrors, <<>>)

\* a summary intent: null, or {dataSource, summaryType, tone}
SummaryParams(kind, dataSource, summaryType, tone) ==
  [kind |-> kind, dataSource |-> dataSource, summaryType |-> summaryType, tone |-> tone]

\* validateSchema(params, summarizeDataSchema)
validateSummarizeDataParams(params) ==
  LET issues ==
        IF params.kind = "null" THEN <<"Field '': Expected object, received null">>
        ELSE tableSchemaIssues(params.dataSource, "Invalid enum value")
             \o (IF params.summaryType \notin SUMMARY_TYPES
                   THEN <<"Field 'summaryType': Summary type must be one of: trend, comparison, anomaly, summary">>
                   ELSE <<>>)
             \o (IF params.tone \notin TONES
                   THEN <<"Field 'tone': Tone must be one of: neutral, insightful, actionable">>
                   ELSE <<>>)
  IN [success |-> Len(issues) = 0,
      data |-> [params EXCEPT !.dataSource = StripUnknown(params.dataSource)],
      errors |-> issues]

validateSummarization(params, orgId) ==
  LET schemaResult == validateSummarizeDataParams(params)
      rlsErrors == validateRLSContext(orgId)
  IN IF ~schemaResult.success
       THEN Result(FALSE, TRUE, params, "schema",
                   StageErrors("schema", schemaResult.errors), <<>>)
     ELSE IF Len(rlsErrors) > 0
       THEN Result(FALSE, TRUE, schemaResult.data, "rls_context", rlsErrors, <<>>)
     ELSE Result(TRUE, TRUE, schemaResult.data, "passed", <<>>, <<>>)

(* ---------------------------------------------------------------------- *)
(* Inputs of the model                                                     *)
(* ---------------------------------------------------------------------- *)
SeqsUpTo(S, n) == UNION { [1..k -> S] : k \in 0..n }

\* <<limit, page, pageSize>> as the intent carries them
PageCandidates == { <<0, 0, 0>>, <<0, 1, 1>>, <<0, 2, 500>>, <<5000, 0, 0>> }

QueryIntents ==
  { WithGrouping(ObjectParams(t, fs, as, pg[1], pg[2], pg[3]), g[1], g[2]) :
      t \in TableNames, fs \in SeqsUpTo(FilterCandidates, MaxFilters),
      as \in SeqsUpTo(AggregationCandidates, MaxAggregations), pg \in PageCandidates,
      g \in GroupingCandidates }
  \cup {NullParams} \cup { StringParams(str) : str \in StringCandidates }

(* ---------------------------------------------------------------------- *)
(* The store (external collaborator) and the query executor                *)
(* (functions/query-database.ts)                                           *)
(* ---------------------------------------------------------------------- *)
Row(table, org, id, status, amount) ==
  [table |-> table, org_id |-> org, id |-> id, status |-> status, amount |-> amount]

\* the rows of the store; the pipeline only reads them
StoreRows ==
  { Row("customers", T1, 1, "active", 100),
    Row("customers", T1, 2, "churned", 50),
    Row("customers", T2, 3, "active", 200),
    Row("organizations", T1, 4, "active", 0),
    Row("organizations", T2, 5, "active", 0),
    Row("audit_logs", T2, 6, "active", 10) }

StoreTables == DOMAIN allowedTables
TextColumns == {"status"}
NumericColumns == {"id", "amount"}

\* no predicate on the tenant column
NoTenant == Undefined

Query(kind, table, tenant, filters, aggregations, limit, offset) ==
  [kind |-> kind, table |-> table, tenant |-> tenant, filters |-> filters,
   aggregations |-> aggregations, limit |-> limit, offset |-> offset]

\* buildFilterConditions: whether the predicate built for filter f holds of row r
FilterHolds(r, f) ==
  LET isText == f.column \in TextColumns
      cell == IF isText THEN r.status ELSE IF f.column = "id" THEN r.id ELSE r.amount
      v == IF isText THEN f.value.s ELSE f.value.n
  IN CASE f.operator = "eq" -> cell = v
       [] f.operator = "ne" -> cell # v
       [] f.operator = "gt" -> ~isText /\ cell > v
       [] f.operator = "lt" -> ~isText /\ cell < v
       [] f.operator = "gte" -> ~isText /\ cell >= v
       [] f.operator = "lte" -> ~isText /\ cell <= v
       [] f.operator = "contains" -> isText /\ Includes(ToLowerCase(cell), ToLowerCase(v))
       [] f.operator = "in" -> cell = v
       [] OTHER -> FALSE

\* the store rejects a query that names a table or column it does not have,
\* or compares a column with a value of another type
StoreRejects(q) ==
  \/ q.table \notin StoreTables
  \/ \E i \in 1..Len(q.filters) :
       LET f == q.filters[i]
       IN \/ f.column \notin TextColumns \cup NumericColumns
          \/ f.column \in TextColumns /\ f.value.t # "str"
          \/ f.column \in NumericColumns /\ f.value.t # "num"
  \/ \E i \in 1..Len(q.aggregations) :
       q.aggregations[i].field \notin TextColumns \cup NumericColumns

\* the rows a query selects: the table's rows that satisfy the tenant predicate,
\* when the query has one, and every filter
Selected(q) ==
  { r \in StoreRows :
      /\ r.table = q.table
      /\ (q.tenant # NoTenant => r.org_id = q.tenant)
      /\ \A i \in 1..Len(q.filters) : FilterHolds(r, q.filters[i]) }

\* what one call of the executor did: the queries it sent in order, the rows
\* its result was computed from, and whether it threw to its caller
\* QueryResult.pagination; present is `pagination !== undefined`
NoPagination ==
  [present |-> FALSE, page |-> 0, pageSize |-> 0, totalRows |-> 0, totalPages |-> 0,
   hasNextPage |-> FALSE, hasPreviousPage |-> FALSE]

\* Math.ceil(a / b) for a >= 0 and b > 0
Ceil(a, b) == (a + b - 1) \div b

\* calculatePagination (cost/limits.ts)
calculatePagination(totalRows, page, pageSize) ==
  LET totalPages == Ceil(totalRows, pageSize)
  IN [present |-> TRUE, page |-> page, pageSize |-> pageSize, totalRows |-> totalRows,
      totalPages |-> totalPages, hasNextPage |-> page < totalPages,
      hasPreviousPage |-> page > 1]

Execution(threw, queries, basis, rowCount) ==
  [threw |-> threw, queries |-> queries, basis |-> basis, rowCount |-> rowCount,
   pagination |-> NoPagination]

\* results.length of a query the store accepted: one row of aggregates, or the
\* selected rows after OFFSET and LIMIT
RowCount(q) ==
  LET n == Cardinality(Selected(q))
      rest == IF n > q.offset THEN n - q.offset ELSE 0
  IN IF Len(q.aggregations) > 0 THEN 1
     ELSE IF q.limit # 0 THEN Min(q.limit, rest) ELSE rest

\* orgId ? { orgId } : await getExecutionContext(), whose getOrgContext()
\* answers with the session's tenant; Undefined when that throws
contextOrg(orgId, sessionOrg) == IF ~Falsy(orgId) THEN orgId ELSE sessionOrg

\* countRecords(table, orgId): one count query bound to the tenant, errors caught
countRecords(table, org) ==
  <<Query("count", table, org, <<>>, <<>>, 0, 0)>>

\* the number countRecords returns: the store's count, or 0 when the store
\* raised an error
countRecordsValue(table, org) ==
  LET q == countRecords(table, org)[1]
  IN IF StoreRejects(q) THEN 0 ELSE Cardinality(Selected(q))

\* the query built by executeQueryWithAggregations (lines 217-263)
aggregationsMainQuery(params) ==
  Query("main", params.table, NoTenant, params.filters, params.aggregations,
        IF params.page # 0 /\ params.pageSize # 0 THEN params.pageSize
        ELSE IF params.limit # 0 THEN Min(params.limit, LIMIT_CEILING) ELSE 0,
        IF params.page # 0 /\ params.pageSize # 0
          THEN (params.page - 1) * params.pageSize ELSE 0)

executeQueryWithAggregations(params, orgId, sessionOrg) ==
  LET org == contextOrg(orgId, sessionOrg)
      main == aggregationsMainQuery(params)
      paginated == params.page # 0 /\ params.pageSize # 0
  IN IF org = Undefined THEN Execution(TRUE, <<>>, {}, 0)
     ELSE IF StoreRejects(main) THEN Execution(TRUE, <<main>>, {}, 0)
     ELSE [Execution(FALSE,
             <<main>> \o (IF paginated /\ Len(params.aggregations) = 0
                            THEN countRecords(params.table, org) ELSE <<>>),
             Selected(main), RowCount(main))
           EXCEPT !.pagination =
             IF ~paginated THEN NoPagination
             ELSE calculatePagination(
                    IF Len(params.aggregations) > 0 THEN RowCount(main)
                    ELSE countRecordsValue(params.table, org),
                    params.page, params.pageSize)]

\* export async function queryDatabase(params, orgId) (lines 198-203)
queryDatabase(params, orgId, sessionOrg) ==
  executeQueryWithAggregations(params, orgId, sessionOrg)

\* executeSimpleQuery (lines 65-144)
executeSimpleQuery(params, org) ==
  LET main == Query("main", params.table, org, params.filters, params.aggregations,
                    IF params.limit # 0 THEN Min(params.limit, LIMIT_CEILING) ELSE 0, 0)
  IN IF StoreRejects(main) THEN Execution(TRUE, <<main>>, {}, 0)
     ELSE Execution(FALSE, <<main>>, Selected(main), RowCount(main))

PAGE_SIZE_CEILING == 100
DEFAULT_PAGE_SIZE == 50

\* executePaginatedQuery (lines 146-196)
executePaginatedQuery(params, org) ==
  LET page == IF params.page = 0 THEN 1 ELSE params.page
      pageSize == Min(IF params.pageSize = 0 THEN DEFAULT_PAGE_SIZE ELSE params.pageSize,
                      PAGE_SIZE_CEILING)
      count == Query("count", params.table, org, params.filters, <<>>, 0, 0)
      data == Query("main", params.table, org, params.filters, <<>>,
                    pageSize, (page - 1) * pageSize)
  IN IF StoreRejects(count) THEN Execution(TRUE, <<count>>, {}, 0)
     ELSE [Execution(FALSE, <<count, data>>, Selected(data), RowCount(data))
           EXCEPT !.pagination =
             calculatePagination(Cardinality(Selected(count)), page, pageSize)]

\* the body left behind at lines 316-343: dispatch on page / pageSize, with the
\* store's errors caught and turned into an empty result
dispatchQuery(params, orgId, sessionOrg) ==
  LET org == contextOrg(orgId, sessionOrg)
      run == IF params.page # 0 \/ params.pageSize # 0
               THEN executePaginatedQuery(params, org)
               ELSE executeSimpleQuery(params, org)
  IN IF org = Undefined THEN Execution(TRUE, <<>>, {}, 0)
     ELSE [run EXCEPT !.threw = FALSE]

SummaryIntents ==
  { SummaryParams("object", ObjectParams(t, <<>>, <<>>, 0, 0, 0), st, tone) :
      t \in {"customers", "secrets"}, st \in {"trend", "forecast"},
      tone \in {"neutral", "sarcastic"} }
  \cup { SummaryParams("null", NullParams, "", "") }

(* ---------------------------------------------------------------------- *)
(* State                                                                   *)
(* ---------------------------------------------------------------------- *)
VARIABLES
  pc,          \* where the call in progress stands
  input,       \* a direct call of the pipeline: [fn, params, orgId, abortEarly]
  outcome,     \* what that call returned (a FullValidationResult) or Threw
  call,        \* a tool call the model chose: [tool, orch, params, orgId, sessionOrg]
  validation,  \* what validateQuery answered inside the tool handler
  execution,   \* what the executor did for the tool call
  response     \* what the tool handler handed back to the model

vars == <<pc, input, outcome, call, validation, execution, response>>

NoInput == [fn |-> "none", params |-> NullParams, orgId |-> Undefined, abortEarly |-> TRUE]
NoCall ==
  [tool |-> "none", orch |-> "none", params |-> NullParams, orgId |-> Undefined,
   sessionOrg |-> Undefined]
\* no validation result yet
NotRun ==
  [threw |-> FALSE, success |-> FALSE, hasData |-> FALSE, data |-> NullParams,
   stage |-> "not_run", errors |-> <<>>, warnings |-> <<>>]
NoExecution == Execution(FALSE, <<>>, {}, 0)

(* ---------------------------------------------------------------------- *)
(* The pipeline called directly: validateQuery and validateSummarization   *)
(* ---------------------------------------------------------------------- *)
ValidateInputs ==
  { [fn |-> "validateQuery", params |-> p, orgId |-> o, abortEarly |-> a] :
      p \in QueryIntents, o \in OrgIds, a \in BOOLEAN }
  \cup
  { [fn |-> "validateSummarization", params |-> p, orgId |-> o, abortEarly |-> TRUE] :
      p \in SummaryIntents, o \in OrgIds }

InitValidate ==
  /\ pc = "call"
  /\ input \in ValidateInputs
  /\ outcome = NotRun
  /\ call = NoCall
  /\ validation = NotRun
  /\ execution = NoExecution
  /\ response = "none"

CallValidateQuery ==
  /\ pc = "call"
  /\ input.fn = "validateQuery"
  /\ outcome' = validateQuery(input.params, input.orgId, input.abortEarly)
  /\ pc' = "returned"
  /\ UNCHANGED <<input, call, validation, execution, response>>

CallValidateSummarization ==
  /\ pc = "call"
  /\ input.fn = "validateSummarization"
  /\ outcome' = validateSummarization(input.params, input.orgId)
  /\ pc' = "returned"
  /\ UNCHANGED <<input, call, validation, execution, response>>

NextValidate == CallValidateQuery \/ CallValidateSummarization

SpecValidate == InitValidate /\ [][NextValidate]_vars

(* ---------------------------------------------------------------------- *)
(* The orchestrator tools (createAIClient in client.ts, orchestrateAIQuery *)
(* in schema.ts): one tool call at a time, chosen by the model             *)
(* ---------------------------------------------------------------------- *)
Tools == {"queryDatabase", "generateChart", "summarizeData"}
Orchestrators == {"createAIClient", "orchestrateAIQuery"}

\* the tenant the orchestrator was given, and the session's tenant that
\* getOrgContext() answers with when the orchestrator was given none
TenantPairs ==
  { <<o, Undefined>> : o \in OrgIds } \cup { <<o, T1>> : o \in {Undefined, ""} }

\* the intents of tool calls: object intents over fewer tables, filters and
\* aggregations than the pipeline is called with directly, and the non-objects
ToolTables == {"customers", "audit_logs", "secrets"}
ToolFilters == { f \in FilterCandidates : f.operator \in {"eq", "gt"} /\ f.value.s \in {"", "active", "x"} }
ToolAggregations == { a \in AggregationCandidates : a.function \in AGGREGATION_FUNCTIONS }

ToolIntents ==
  { ObjectParams(t, fs, as, pg[1], pg[2], pg[3]) :
      t \in ToolTables, fs \in SeqsUpTo(ToolFilters, MaxFilters),
      as \in SeqsUpTo(ToolAggregations, MaxAggregations), pg \in PageCandidates }
  \cup {NullParams} \cup { StringParams(str) : str \in StringCandidates }

\* the calls the model can make: the queryDatabase tool with any intent, the
\* chart and summary tools with an object as dataSource
IsToolCall(tool, orch, params) ==
  \/ tool = "queryDatabase" /\ orch \in Orchestrators
  \/ tool \in {"generateChart", "summarizeData"} /\ orch \in Orchestrators
       /\ params.kind = "object"
  \/ tool = "dispatchQuery" /\ orch = "none" /\ params.kind = "object"
  \/ tool = "direct" /\ orch = "none" /\ params.kind = "object"

Init ==
  /\ pc = "start"
  /\ \E tool \in Tools \cup {"dispatchQuery", "direct"}, orch \in Orchestrators \cup {"none"},
        p \in ToolIntents, tp \in TenantPairs :
       /\ IsToolCall(tool, orch, p)
       /\ call = [tool |-> tool, orch |-> orch, params |-> p, orgId |-> tp[1],
                  sessionOrg |-> tp[2]]
  /\ input = NoInput
  /\ outcome = NotRun
  /\ validation = NotRun
  /\ execution = NoExecution
  /\ response = "none"

\* what a handler answers after queryDatabase returned
Answer(orch, run, whenRows, whenEmpty) ==
  IF run.threw THEN "threw"
  ELSE IF orch = "orchestrateAIQuery" /\ run.rowCount = 0 THEN whenEmpty
  ELSE whenRows

\* queryDatabase tool, up to `await validateQuery(params, { orgId })`
QueryDatabaseToolValidate ==
  /\ pc = "start"
  /\ call.tool = "queryDatabase"
  /\ LET validationResult == validateQuery(call.params, call.orgId, TRUE)
     IN /\ validation' = validationResult
        /\ IF validationResult.threw
             THEN pc' = "done" /\ response' = "threw"
           ELSE IF ~validationResult.success
             THEN pc' = "done" /\ response' = "rejected"
           ELSE pc' = "validated" /\ response' = response
  /\ UNCHANGED <<input, outcome, call, execution>>

\* queryDatabase tool, `await queryDatabase(params, orgId)` and the answer
QueryDatabaseToolExecute ==
  /\ pc = "validated"
  /\ call.tool = "queryDatabase"
  /\ LET run == queryDatabase(call.params, call.orgId, call.sessionOrg)
     IN /\ execution' = run
        /\ response' = Answer(call.orch, run, "result", "no_results")
  /\ pc' = "done"
  /\ UNCHANGED <<input, outcome, call, validation>>

\* generateChart tool: queryDatabase(params.dataSource, orgId), then the chart
GenerateChartTool ==
  /\ pc = "start"
  /\ call.tool = "generateChart"
  /\ LET run == queryDatabase(call.params, call.orgId, call.sessionOrg)
     IN /\ execution' = run
        /\ response' = Answer(call.orch, run, "chart", "no_data")
  /\ pc' = "done"
  /\ UNCHANGED <<input, outcome, call, validation>>

\* summarizeData tool: queryDatabase(params.dataSource, orgId), then the summary
SummarizeDataTool ==
  /\ pc = "start"
  /\ call.tool = "summarizeData"
  /\ LET run == queryDatabase(call.params, call.orgId, call.sessionOrg)
     IN /\ execution' = run
        /\ response' = Answer(call.orch, run, "summary", "no_data")
  /\ pc' = "done"
  /\ UNCHANGED <<input, outcome, call, validation>>

\* the second body of queryDatabase kept in the file (lines 316-343), called
\* with an intent and a tenant
DispatchQuery ==
  /\ pc = "start"
  /\ call.tool = "dispatchQuery"
  /\ LET run == dispatchQuery(call.params, call.orgId, call.sessionOrg)
     IN /\ execution' = run
        /\ response' = IF run.threw THEN "threw" ELSE "result"
  /\ pc' = "done"
  /\ UNCHANGED <<input, outcome, call, validation>>

\* the exported queryDatabase(params, orgId) called by any other module, with
\* the page and pageSize its parameter type admits
CallQueryDatabase ==
  /\ pc = "start"
  /\ call.tool = "direct"
  /\ LET run == queryDatabase(call.params, call.orgId, call.sessionOrg)
     IN /\ execution' = run
        /\ response' = IF run.threw THEN "threw" ELSE "result"
  /\ pc' = "done"
  /\ UNCHANGED <<input, outcome, call, validation>>

Next ==
  \/ QueryDatabaseToolValidate
  \/ QueryDatabaseToolExecute
  \/ GenerateChartTool
  \/ SummarizeDataTool
  \/ DispatchQuery
  \/ CallQueryDatabase

Spec == Init /\ [][Next]_vars

(* ---------------------------------------------------------------------- *)
(* Properties                                                              *)
(*                                                                         *)
(* The stages the specification calls resource_whitelist, tenant_context   *)
(* and injection_scan are named table_whitelist, rls_context and           *)
(* sql_injection in the code.                                              *)
(* ---------------------------------------------------------------------- *)
Returned(fn) == pc = "returned" /\ input.fn = fn

\* the tenant the executor was called for
CallTenant == contextOrg(call.orgId, call.sessionOrg)

\* C1: every query the executor sends to the store (the main query and the
\* count query) binds the tenant column to the call's tenant and carries the
\* intent's filters, and the result is computed from rows of that tenant only.
C1_EveryQueryBindsTenant ==
  /\ \A i \in 1..Len(execution.queries) :
       /\ execution.queries[i].tenant = CallTenant
       /\ execution.queries[i].filters = call.params.filters
  /\ \A r \in execution.basis : r.org_id = CallTenant

\* C2: in every orchestrator tool a query reaches the store only after the
\* validation pipeline returned success for the call's intent and tenant.
C2_ExecutorOnlyAfterValidation ==
  (call.tool \in Tools /\ Len(execution.queries) > 0) => validation.success

\* C3: validateQuery and validateSummarization never return success when the
\* tenant id is missing, empty or not a UUID, whatever the abortEarly mode.
C3_NoSuccessWithoutValidTenant ==
  (pc = "returned" /\ input.orgId \notin {T1, T2}) => ~outcome.success

\* C3 witness: with abortEarly=false a schema-valid intent under a malformed
\* tenant id came back refused by the tenant-context stage.
C3_Witness ==
  /\ Returned("validateQuery")
  /\ ~input.abortEarly
  /\ input.orgId = "tenant-1"
  /\ validateQueryDatabaseParams(input.params).success
  /\ ~outcome.threw /\ ~outcome.success
  /\ outcome.stage = "rls_context"

\* the intent passes the schema stage
SchemaValid(params) == validateQueryDatabaseParams(params).success

\* some filter column, once sanitized, still holds a sensitive term
SensitiveFilter(params) ==
  \E i \in 1..Len(params.filters) : Sanitized[params.filters[i].column].threw

\* some aggregation field, once sanitized, still holds a sensitive term
SensitiveAggregation(params) ==
  \E i \in 1..Len(params.aggregations) : Sanitized[params.aggregations[i].field].threw

AllErrorsOf(stage) ==
  \A i \in 1..Len(outcome.errors) : outcome.errors[i].stage = stage

SomeErrorOf(stage) ==
  \E i \in 1..Len(outcome.errors) : outcome.errors[i].stage = stage

\* the inputs on which validateQuery throws instead of returning
ThrowsOn(params, abortEarly) ==
  \/ params.kind = "null" /\ ~abortEarly
  \/ /\ params.kind = "object" /\ params.table # ""
     /\ SchemaValid(params) \/ ~abortEarly
     /\ \/ SensitiveFilter(params)
        \/ params.table \in ObjectPrototypeKeys /\ Len(params.aggregations) > 0

\* C4 as stated: every intent with a missing tenant id fails at stage
\* tenant_context, whatever the rest of the intent holds.
C4_MissingTenantFailsAtTenantContext ==
  (Returned("validateQuery") /\ input.orgId = Undefined)
    => (~outcome.threw /\ ~outcome.success /\ outcome.stage = "rls_context")

\* C4 amended: an intent with a missing tenant id never passes. With
\* abortEarly=true a returned result has stage tenant_context and only that
\* stage's errors when the intent passes the schema stage, and stage schema
\* when it does not; with abortEarly=false a returned result holds an error of
\* stage tenant_context. The call throws only on the inputs of ThrowsOn.
C4_MissingTenantNeverPasses ==
  (Returned("validateQuery") /\ input.orgId = Undefined)
    => /\ ~outcome.success
       /\ outcome.threw => ThrowsOn(input.params, input.abortEarly)
       /\ (~outcome.threw /\ input.abortEarly) =>
            IF SchemaValid(input.params)
              THEN outcome.stage = "rls_context" /\ AllErrorsOf("rls_context")
                   /\ Len(outcome.errors) > 0
              ELSE outcome.stage = "schema"
       /\ (~outcome.threw /\ ~input.abortEarly) => SomeErrorOf("rls_context")

\* C4 witness: a schema-valid intent with a filter, no tenant id, default mode,
\* refused at the tenant-context stage.
C4_Witness ==
  /\ Returned("validateQuery")
  /\ input.orgId = Undefined /\ input.abortEarly
  /\ SchemaValid(input.params) /\ Len(input.params.filters) > 0
  /\ ~outcome.threw /\ ~outcome.success
  /\ outcome.stage = "rls_context"

\* a resource outside the whitelist
OutsideWhitelist(params) ==
  params.kind = "object" /\ params.table \notin DOMAIN allowedTables

\* C5 as stated: an intent whose resource is outside the whitelist comes back
\* with success=false and stage resource_whitelist, and nothing is thrown.
C5_OutsideWhitelistFailsAtWhitelist ==
  (Returned("validateQuery") /\ OutsideWhitelist(input.params))
    => (~outcome.threw /\ ~outcome.success /\ outcome.stage = "table_whitelist")

\* C5 amended: an intent whose resource is outside the whitelist never passes;
\* with abortEarly=true (the default) nothing is thrown and the result has
\* success=false, stage schema and only schema errors, because the schema's
\* table enum rejects the resource before the whitelist stage runs.
C5_OutsideWhitelistFailsAtSchema ==
  (Returned("validateQuery") /\ OutsideWhitelist(input.params))
    => /\ ~outcome.success
       /\ input.abortEarly =>
            /\ ~outcome.threw
            /\ outcome.stage = "schema"
            /\ Len(outcome.errors) > 0 /\ AllErrorsOf("schema")

\* C5 witness: the resource "secrets" in default mode, refused at stage schema.
C5_Witness ==
  /\ Returned("validateQuery")
  /\ input.params.kind = "object" /\ input.params.table = "secrets"
  /\ input.abortEarly
  /\ ~outcome.threw /\ ~outcome.success /\ outcome.stage = "schema"

\* C6: a filter column or aggregation field whose sanitized form still holds a
\* sensitive term makes validateQuery return success=false at stage
\* column_validation (here for intents that pass the schema stage, in default
\* mode).
C6_SensitiveFieldFailsColumnValidation ==
  (/\ Returned("validateQuery") /\ input.abortEarly
   /\ SchemaValid(input.params)
   /\ SensitiveFilter(input.params) \/ SensitiveAggregation(input.params))
    => (~outcome.threw /\ ~outcome.success /\ outcome.stage = "column_validation")

\* C7: validateQuery never throws: every call returns a ValidationResult.
C7_NeverThrows ==
  Returned("validateQuery") => ~outcome.threw

C9_FailureHasNoData ==
  (pc = "returned" /\ ~outcome.threw /\ ~outcome.success) => ~outcome.hasData

\* the first stage, in pipeline order, at which the input fails
FirstFailingStage(params, orgId) ==
  IF ~SchemaValid(params) THEN "schema"
  ELSE IF ~isTableAllowed(params.table) THEN "table_whitelist"
  ELSE IF SensitiveFilter(params) THEN "column_validation"
  ELSE IF orgId \notin {T1, T2} THEN "rls_context"
  ELSE IF Len(checkSqlInjection(params)) > 0 THEN "sql_injection"
  ELSE "passed"

\* C10: with abortEarly=true the result reports the first failing stage in the
\* order schema, resource whitelist, column validation, tenant context,
\* injection scan, and holds that stage's errors only.
C10_AbortEarlyReportsFirstFailingStage ==
  (Returned("validateQuery") /\ input.abortEarly)
    => /\ ~outcome.threw
       /\ outcome.stage = FirstFailingStage(input.params, input.orgId)
       /\ AllErrorsOf(outcome.stage)

\* a name that sanitizeColumnName would leave unchanged
WordOnly(name) == \A i \in 1..Len(name) : IsWordChar(CharAt(name, i))

\* C11: whenever validateQuery returns success, every column and field name of
\* the returned data holds only characters of [A-Za-z0-9_].
C11_ReturnedDataIsSanitized ==
  (Returned("validateQuery") /\ outcome.success)
    => /\ \A i \in 1..Len(outcome.data.filters) : WordOnly(outcome.data.filters[i].column)
       /\ \A i \in 1..Len(outcome.data.aggregations) :
            WordOnly(outcome.data.aggregations[i].field)
       /\ \A i \in 1..Len(outcome.data.groupBy) : WordOnly(outcome.data.groupBy[i])
       /\ \A i \in 1..Len(outcome.data.orderBy) : WordOnly(outcome.data.orderBy[i].field)

\* some groupBy column, once sanitized, still holds a sensitive term
SensitiveGroupBy(params) ==
  \E i \in 1..Len(params.groupBy) : Sanitized[params.groupBy[i]].threw

\* some orderBy field, once sanitized, still holds a sensitive term
SensitiveOrderBy(params) ==
  \E i \in 1..Len(params.orderBy) : Sanitized[params.orderBy[i].field].threw

\* C12: an intent that names a sensitive field in its filters, aggregations,
\* groupBy or orderBy does not pass validation.
C12_SensitiveFieldAnywhereFails ==
  (/\ Returned("validateQuery") /\ input.params.kind = "object"
   /\ \/ SensitiveFilter(input.params) \/ SensitiveAggregation(input.params)
      \/ SensitiveGroupBy(input.params) \/ SensitiveOrderBy(input.params))
    => ~outcome.success

\* some filter column lies outside the resource's allow-list
OutsideAllowList(params) ==
  \E i \in 1..Len(params.filters) :
    ~SeqContains(<<"id", "created_at", "updated_at">>, params.filters[i].column)

\* C13: for a restricted resource a filter column outside the allow-list
\* {id, created_at, updated_at} is reported as an invalid column and the intent
\* fails column validation.
C13_RestrictedAllowListEnforced ==
  (/\ Returned("validateQuery") /\ SchemaValid(input.params)
   /\ input.params.table \in RESTRICTED_TABLES
   /\ OutsideAllowList(input.params))
    => (~outcome.threw /\ ~outcome.success /\ SomeErrorOf("column_validation"))

\* the string leaves of an intent, in the order checkObject visits them
RECURSIVE FilterLeaves(_)
FilterLeaves(filters) ==
  IF Len(filters) = 0 THEN <<>>
  ELSE LET f == Head(filters)
       IN <<f.column, f.operator>>
          \o (IF f.value.t = "str" THEN <<f.value.s>> ELSE <<>>)
          \o FilterLeaves(Tail(filters))

RECURSIVE AggregationLeaves(_)
AggregationLeaves(aggregations) ==
  IF Len(aggregations) = 0 THEN <<>>
  ELSE <<Head(aggregations).field, Head(aggregations).function>>
       \o AggregationLeaves(Tail(aggregations))

RECURSIVE OrderByLeaves(_)
OrderByLeaves(orderBy) ==
  IF Len(orderBy) = 0 THEN <<>>
  ELSE <<Head(orderBy).field, Head(orderBy).direction>> \o OrderByLeaves(Tail(orderBy))

StringLeaves(params) ==
  IF params.kind = "null" THEN <<>>
  ELSE IF params.kind = "string" THEN <<params.str>>
  ELSE (IF params.table = "" THEN <<>> ELSE <<params.table>>)
       \o FilterLeaves(params.filters) \o AggregationLeaves(params.aggregations)
       \o params.groupBy \o OrderByLeaves(params.orderBy)

\* how many leaves of the intent match an injection pattern
MatchingLeaves(params) ==
  LET leaves == StringLeaves(params)
  IN Cardinality({ i \in 1..Len(leaves) : Injection[leaves[i]] })

InjectionFindings ==
  Cardinality({ i \in 1..Len(outcome.errors) : outcome.errors[i].stage = "sql_injection" })

\* the call does not return before the injection scan
ScanReached ==
  \/ ~input.abortEarly
  \/ SchemaValid(input.params) /\ input.orgId \in {T1, T2}

C14_OnlyAllowedAggregatesExecuted ==
  call.tool = "queryDatabase" =>
  \A i \in 1..Len(execution.queries) :
    \A j \in 1..Len(execution.queries[i].aggregations) :
      execution.queries[i].aggregations[j].function
        \in getAllowedAggregates(execution.queries[i].table)

\* the call asked for a page
Paginated == call.params.page # 0 /\ call.params.pageSize # 0

\* C16: when queryDatabase is called, a main query of a paginated call asks for at most min(pageSize, 100)
\* rows, and a main query of a call with a limit asks for at most
\* min(limit, 1000) rows.
C16_MainQueryIsRowBounded ==
  call.tool = "direct" =>
  \A i \in 1..Len(execution.queries) :
    LET q == execution.queries[i]
    IN q.kind = "main" =>
         /\ Paginated =>
              (q.limit # 0 /\ q.limit <= Min(call.params.pageSize, PAGE_SIZE_CEILING))
         /\ (~Paginated /\ call.params.limit # 0) =>
              (q.limit # 0 /\ q.limit <= Min(call.params.limit, LIMIT_CEILING))

\* C17: an error the store raises for a query never reaches the caller of
\* queryDatabase: a call that sent a query returns a result.
C17_StoreErrorsAreCaught ==
  (call.tool = "direct" /\ Len(execution.queries) > 0) => ~execution.threw

\* the count of rows the call's intent selects: same tenant, same filters
IntentTotalRows ==
  Cardinality(Selected(Query("count", call.params.table, CallTenant,
                             call.params.filters, <<>>, 0, 0)))

\* C18: for a paginated call of queryDatabase without aggregations, totalRows is the count of
\* rows selected by the same tenant predicate and filters as the data query,
\* totalPages is ceil(totalRows / pageSize), hasNextPage is page < totalPages
\* and hasPreviousPage is page > 1.
C18_PaginationCountsTheIntent ==
  (/\ call.tool = "direct" /\ execution.pagination.present
   /\ Len(call.params.aggregations) = 0)
    => LET totalPages == Ceil(IntentTotalRows, call.params.pageSize)
       IN /\ execution.pagination.totalRows = IntentTotalRows
          /\ execution.pagination.totalPages = totalPages
          /\ execution.pagination.hasNextPage <=> (call.params.page < totalPages)
          /\ execution.pagination.hasPreviousPage <=> (call.params.page > 1)

(* ---------------------------------------------------------------------- *)
(* Summarizer (functions/query-database.ts, lines 424-879)                 *)
(*                                                                         *)
(* A data set is the `data` of a QueryResult: the keys of its rows in      *)
(* insertion order and the rows. A cell is a number, a string, null, or    *)
(* undefined for a key the rows do not have.                               *)
(* ---------------------------------------------------------------------- *)
NullVal == [t |-> "null", s |-> "", n |-> 0]
UndefVal == [t |-> "undef", s |-> "", n |-> 0]

\* an ISO date string, held as the time `new Date(s).getTime()` gives for it
DateVal(n) == [t |-> "date", s |-> "", n |-> n]

DataRow(id, status, amount) ==
  [id |-> id, status |-> status, amount |-> amount, created_at |-> UndefVal]

\* row[key]
Cell(row, key) ==
  IF key = "id" THEN row.id
  ELSE IF key = "status" THEN row.status
  ELSE IF key = "amount" THEN row.amount
  ELSE IF key = "created_at" THEN row.created_at
  ELSE UndefVal

\* Number(cell): null converts to 0, a non-numeric string and undefined to NaN
ToNumber(cell) ==
  [nan |-> cell.t \in {"str", "undef", "date"}, n |-> IF cell.t = "num" THEN cell.n ELSE 0]

RECURSIVE SumSeq(_)
SumSeq(values) == IF Len(values) = 0 THEN 0 ELSE Head(values) + SumSeq(Tail(values))

RECURSIVE SumSquares(_)
SumSquares(values) ==
  IF Len(values) = 0 THEN 0 ELSE Head(values) * Head(values) + SumSquares(Tail(values))

\* data.map(row => Number(row[valueField])).filter(v => !isNaN(v))
RECURSIVE numericValues(_, _)
numericValues(rows, valueField) ==
  IF Len(rows) = 0 THEN <<>>
  ELSE LET v == ToNumber(Cell(Head(rows), valueField))
       IN (IF v.nan THEN <<>> ELSE <<v.n>>) \o numericValues(Tail(rows), valueField)

\* the largest z-score, in hundredths, the data sets of the model can reach
MaxDeviation == 1000

\* floor(sqrt(x))
ISqrt(x) == CHOOSE k \in 0..MaxDeviation : k * k <= x /\ x < (k + 1) * (k + 1)

\* the rows detectAnomalies flags when it compares the z-score with a given
\* threshold. With N values of sum S and Q = N * sum of squares - S * S, the
\* mean is S / N and the population variance Q / N^2, so that
\* |v - mean| / stdDev > threshold iff (N v - S)^2 > threshold^2 * Q.
\* deviation is the z-score in hundredths, rounded down.
RECURSIVE anomaliesAbove(_, _, _, _, _, _)
anomaliesAbove(rows, valueField, threshold, N, S, Q) ==
  IF Len(rows) = 0 THEN <<>>
  ELSE LET v == ToNumber(Cell(Head(rows), valueField))
           d == N * v.n - S
           flagged == ~v.nan /\ Q > 0 /\ d * d > threshold * threshold * Q
       IN (IF flagged
             THEN <<[value |-> v.n, deviation |-> ISqrt((10000 * d * d) \div Q)]>>
             ELSE <<>>)
          \o anomaliesAbove(Tail(rows), valueField, threshold, N, S, Q)

Z_THRESHOLD == 2
MIN_VALUES == 3

\* detectAnomalies with the threshold 3 in place of 2
detectAnomaliesThreshold3(rows, valueField) ==
  LET values == numericValues(rows, valueField)
      N == Len(values)
      S == SumSeq(values)
  IN IF N < MIN_VALUES THEN <<>>
     ELSE anomaliesAbove(rows, valueField, 3, N, S, N * SumSquares(values) - S * S)

\* detectAnomalies (lines 545-580)
detectAnomalies(rows, valueField) ==
  LET values == numericValues(rows, valueField)
      N == Len(values)
      S == SumSeq(values)
  IN IF N < MIN_VALUES THEN <<>>
     ELSE anomaliesAbove(rows, valueField, Z_THRESHOLD, N, S,
                         N * SumSquares(values) - S * S)

\* Object.keys(data[0]).filter(key => data.every(row =>
\*   typeof row[key] === 'number' || row[key] === null))
numericFields(data) ==
  SelectSeq(data.keys,
            LAMBDA key : \A i \in 1..Len(data.rows) :
                           Cell(data.rows[i], key).t \in {"num", "null"})

\* summarizeData's choice of the value field (lines 837-839):
\* focusAreas?.length ? focusAreas[0] : numericFields[0]
primaryValueField(data, focusAreas) ==
  IF Len(focusAreas) > 0 THEN focusAreas[1] ELSE numericFields(data)[1]

\* new Date(cell).getTime(): a number is taken as milliseconds, null as 0, a
\* date string as its time; any other string and undefined give NaN
TimeOf(cell) ==
  [nan |-> cell.t \in {"str", "undef"}, n |-> IF cell.t \in {"num", "date"} THEN cell.n ELSE 0]

\* the comparator of the sort: timeA - timeB, where NaN counts as +0
SortKey(row, timeField) ==
  LET time == TimeOf(Cell(row, timeField)) IN IF time.nan THEN 0 ELSE time.n

\* sortedData[0] of the stable sort: the earliest row among those of least time
SortedFirst(rows, timeField) ==
  rows[CHOOSE i \in 1..Len(rows) :
         /\ \A j \in 1..Len(rows) : SortKey(rows[i], timeField) <= SortKey(rows[j], timeField)
         /\ \A j \in 1..(i - 1) : SortKey(rows[j], timeField) # SortKey(rows[i], timeField)]

\* sortedData[sortedData.length - 1]: the latest row among those of greatest time
SortedLast(rows, timeField) ==
  rows[CHOOSE i \in 1..Len(rows) :
         /\ \A j \in 1..Len(rows) : SortKey(rows[j], timeField) <= SortKey(rows[i], timeField)
         /\ \A j \in (i + 1)..Len(rows) : SortKey(rows[j], timeField) # SortKey(rows[i], timeField)]

Abs(x) == IF x < 0 THEN -x ELSE x

\* Number(x) || 0
NumberOrZero(cell) == LET v == ToNumber(cell) IN IF v.nan THEN 0 ELSE v.n

STABLE_BAND == 5

Trend(direction, percentage, period) ==
  [direction |-> direction, percentage |-> percentage, period |-> period]

NoTrend == Trend("none", 0, "none")

\* what analyzeTrend answers for the first and last value; percentage is held
\* in hundredths of a percent, rounded down
trendOf(firstValue, lastValue, band) ==
  IF firstValue = 0
    THEN Trend(IF lastValue > 0 THEN "up" ELSE "stable", 0, "period")
  ELSE LET diff == lastValue - firstValue
       IN Trend(IF Abs(diff) * 100 < band * Abs(firstValue) THEN "stable"
                ELSE IF diff > 0 THEN "up" ELSE "down",
                (Abs(diff) * 10000) \div Abs(firstValue),
                "data points")

\* analyzeTrend; summarizeData always passes a time field
analyzeTrend(rows, valueField, timeField) ==
  IF Len(rows) < 2 THEN Trend("stable", 0, "insufficient data")
  ELSE trendOf(NumberOrZero(Cell(SortedFirst(rows, timeField), valueField)),
               NumberOrZero(Cell(SortedLast(rows, timeField), valueField)),
               STABLE_BAND)

\* timeFields (lines 841-848): `new Date(...)` never throws, so every key of
\* the first row is kept
timeFields(data) == data.keys

NoSummary(kind) ==
  [kind |-> kind, primaryValueField |-> "", anomalies |-> <<>>, trend |-> NoTrend]

\* summarizeData (lines 818-879): the fixed messages, or the summary of the
\* requested mode over the primary field
summarizeData(data, focusAreas, summaryType) ==
  IF Len(data.rows) = 0 THEN NoSummary("no_data")
  ELSE IF Len(numericFields(data)) = 0 THEN NoSummary("no_numeric_fields")
  ELSE LET field == primaryValueField(data, focusAreas)
       IN [kind |-> summaryType, primaryValueField |-> field,
           anomalies |-> IF summaryType = "anomaly"
                           THEN detectAnomalies(data.rows, field) ELSE <<>>,
           trend |-> IF summaryType = "trend"
                       THEN analyzeTrend(data.rows, field, timeFields(data)[1])
                       ELSE NoTrend]

(* ---------------------------------------------------------------------- *)
(* The summarizer called with a query result                               *)
(* ---------------------------------------------------------------------- *)
\* the largest number of rows beside the outlying one
MaxRest == 12

\* n values, alternately 9 and 11: mean 10 and standard deviation 1 for even n
RestValues(n) == [i \in 1..n |-> IF i % 2 = 1 THEN 9 ELSE 11]

\* the values of the amount column
AmountCandidates ==
  { RestValues(n) \o <<13>> : n \in { k \in 2..MaxRest : k % 2 = 0 } }
  \cup { <<0, 0, 0, 0, 0, 0, 0, 0, 0, 10>>, <<10, 10, 10>>, <<1, 200>>, <<>>,
         <<100, 100, 100, 150>>, <<150, 100, 100, 100>>, <<100, 104>>, <<100, 95>> }

\* the columns of a row, in the order the row lists them
KeyCandidates ==
  { <<"status", "amount">>, <<"id", "status", "amount">>,
    <<"created_at", "amount">>, <<"amount", "created_at">> }

\* what the first row holds as its amount: its number, null, or a string
FirstCells == {"number", "null", "string"}

DataSet(keys, amounts, first) ==
  [keys |-> keys,
   rows |-> [i \in 1..Len(amounts) |->
               [DataRow(IF SeqContains(keys, "id") THEN NumVal(i) ELSE UndefVal,
                        IF SeqContains(keys, "status") THEN StrVal("active") ELSE UndefVal,
                        IF i = 1 /\ first = "null" THEN NullVal
                        ELSE IF i = 1 /\ first = "string" THEN StrVal("n/a")
                        ELSE NumVal(amounts[i]))
                  EXCEPT !.created_at =
                    IF SeqContains(keys, "created_at") THEN DateVal(i) ELSE UndefVal]]]

FocusCandidates == { <<>>, <<"amount">>, <<"status">>, <<"missing">> }

SummaryModes == {"anomaly", "summary", "trend"}

InitSummarize ==
  /\ pc = "call"
  /\ \E keys \in KeyCandidates, amounts \in AmountCandidates, first \in FirstCells,
        focusAreas \in FocusCandidates, summaryType \in SummaryModes :
       \* a column that mixes numbers with unparsable strings is never the
       \* sort key: the comparator would be inconsistent
       /\ first = "string" => keys[1] # "amount"
       /\ input = [fn |-> "summarizeData", data |-> DataSet(keys, amounts, first),
                focusAreas |-> focusAreas, summaryType |-> summaryType]
  /\ outcome = NotRun
  /\ call = NoCall
  /\ validation = NotRun
  /\ execution = NoExecution
  /\ response = "none"

CallSummarizeData ==
  /\ pc = "call"
  /\ input.fn = "summarizeData"
  /\ outcome' = summarizeData(input.data, input.focusAreas, input.summaryType)
  /\ pc' = "returned"
  /\ UNCHANGED <<input, call, validation, execution, response>>

NextSummarize == CallSummarizeData

SpecSummarize == InitSummarize /\ [][NextSummarize]_vars

\* summarizeData returned a summary and not one of its fixed messages
Summarized ==
  Returned("summarizeData") /\ outcome.kind \notin {"no_data", "no_numeric_fields"}

\* C19: the primary field is the first focus-area field when that field is
\* numeric in the data, and the first detected numeric field otherwise.
C19_PrimaryFieldIsNumeric ==
  Summarized =>
    LET detected == numericFields(input.data)
    IN outcome.primaryValueField =
         IF Len(input.focusAreas) > 0 /\ SeqContains(detected, input.focusAreas[1])
           THEN input.focusAreas[1]
           ELSE detected[1]

\* the numbers of the primary field, as the anomaly mode reads them
PrimaryValues == numericValues(input.data.rows, outcome.primaryValueField)

\* value k lies exactly 3 standard deviations of the other values from their
\* mean: with n other values of sum Sr and Qr = n * sum of squares - Sr * Sr,
\* (n v - Sr)^2 = 9 Qr
ThreeSigmaOfRest(values, k) ==
  LET v == values[k]
      n == Len(values) - 1
      Sr == SumSeq(values) - v
      Qr == n * (SumSquares(values) - v * v) - Sr * Sr
  IN n >= 2 /\ Qr > 0 /\ (n * v - Sr) * (n * v - Sr) = 9 * Qr

FlaggedRows ==
  LET N == Len(PrimaryValues)
      S == SumSeq(PrimaryValues)
      Q == N * SumSquares(PrimaryValues) - S * S
  IN { i \in 1..Len(input.data.rows) :
         LET v == ToNumber(Cell(input.data.rows[i], outcome.primaryValueField))
         IN /\ ~v.nan /\ N >= 3 /\ Q > 0
            /\ (N * v.n - S) * (N * v.n - S) > 4 * Q }

DateField(data) ==
  IF SeqContains(data.keys, "created_at") THEN "created_at" ELSE ""

\* the first and the last value of the primary field, in time order when the
\* data has a date column and in row order otherwise
TimeOrderedEnds(data, valueField) ==
  IF DateField(data) = ""
    THEN <<NumberOrZero(Cell(data.rows[1], valueField)),
           NumberOrZero(Cell(data.rows[Len(data.rows)], valueField))>>
    ELSE <<NumberOrZero(Cell(SortedFirst(data.rows, DateField(data)), valueField)),
           NumberOrZero(Cell(SortedLast(data.rows, DateField(data)), valueField))>>

\* C21: in trend mode the change is measured from the first to the last value
\* of the primary field in time order; the direction is 'stable' exactly when
\* the change is below 5% of the first value in magnitude, 'up' or 'down' by
\* its sign otherwise, and the percentage is the magnitude of the change.
C21_TrendFollowsTimeOrder ==
  (Summarized /\ outcome.kind = "trend" /\ Len(input.data.rows) >= 2) =>
    LET ends == TimeOrderedEnds(input.data, outcome.primaryValueField)
        diff == ends[2] - ends[1]
    IN ends[1] # 0 =>
         /\ outcome.trend.direction =
              (IF Abs(diff) * 100 < 5 * Abs(ends[1]) THEN "stable"
               ELSE IF diff > 0 THEN "up" ELSE "down")
         /\ outcome.trend.percentage = (Abs(diff) * 10000) \div Abs(ends[1])

\* ---------------------------------------------------------------------
\* The z-score decision of the summarizer and of the metric-alerting engine,
\* over the same value, baseline mean and standard deviation.

MaxValue == 8
MaxMean == 3
MaxStdDev == 3

ENGINE_THRESHOLD == 2

\* a z-score as a fraction num / den with den > 0, or as Infinity
ZScore(infinite, num, den) == [infinite |-> infinite, num |-> num, den |-> den]

\* Math.abs(zScore) > threshold
ExceedsThreshold(zScore, threshold) ==
  zScore.infinite \/ Abs(zScore.num) > threshold * zScore.den

\* the summarizer's per-row z-score: stdDev > 0 ? Math.abs((value - mean) / stdDev) : 0
summarizerZScore(value, mean, stdDev) ==
  IF stdDev > 0 THEN ZScore(FALSE, Abs(value - mean), stdDev) ELSE ZScore(FALSE, 0, 1)

\* calculateZScore of the alerting engine
calculateZScore(currentValue, baselineMean, baselineStdDev) ==
  IF baselineStdDev = 0
    THEN (IF currentValue # baselineMean THEN ZScore(TRUE, 0, 1) ELSE ZScore(FALSE, 0, 1))
    ELSE ZScore(FALSE, currentValue - baselineMean, baselineStdDev)

NoDecision == [kind |-> "zscore", summarizer |-> "none", engine |-> "none"]

InitZScore ==
  /\ pc = "call"
  /\ \E value \in (0 - MaxValue)..MaxValue, mean \in (0 - MaxMean)..MaxMean,
        stdDev \in 0..MaxStdDev :
       input = [fn |-> "zscore", value |-> value, mean |-> mean, stdDev |-> stdDev]
  /\ outcome = NoDecision
  /\ call = NoCall
  /\ validation = NotRun
  /\ execution = NoExecution
  /\ response = "none"

\* the row test of the summarizer's detectAnomalies
SummarizerFlagsRow ==
  /\ pc = "call"
  /\ input.fn = "zscore"
  /\ outcome' = [outcome EXCEPT !.summarizer =
                   IF ExceedsThreshold(summarizerZScore(input.value, input.mean, input.stdDev),
                                       Z_THRESHOLD)
                     THEN "anomalous" ELSE "normal"]
  /\ pc' = "summarizer_done"
  /\ UNCHANGED <<input, call, validation, execution, response>>

\* the z-score test of AnomalyDetectionEngine.detectAnomalies
EngineFlagsValue ==
  /\ pc = "summarizer_done"
  /\ input.fn = "zscore"
  /\ outcome' = [outcome EXCEPT !.engine =
                   IF ExceedsThreshold(calculateZScore(input.value, input.mean, input.stdDev),
                                       ENGINE_THRESHOLD)
                     THEN "anomalous" ELSE "normal"]
  /\ pc' = "returned"
  /\ UNCHANGED <<input, call, validation, execution, response>>

NextZScore == SummarizerFlagsRow \/ EngineFlagsValue

SpecZScore == InitZScore /\ [][NextZScore]_vars

\* C22: for the same value, baseline mean and standard deviation (a standard
\* deviation of 0 included) and threshold 2.0, the summarizer and the alerting
\* engine decide 'anomalous' identically.
C22_FlaggingAgrees ==
  (pc = "returned" /\ input.fn = "zscore") => outcome.summarizer = outcome.engine

\* ---------------------------------------------------------------------
\* generateChart over a result set whose rows hold an x column and the
\* numeric columns y1..y4.

MaxChartRows == 3

Y_SLICE == 3
MANY_SERIES == 3

YColumns == <<"y1", "y2", "y3", "y4">>

\* what the x column holds in every row: ISO dates, numbers, or category names
XKinds == {"date", "num", "category"}

XCell(kind, i) ==
  IF kind = "date" THEN DateVal(i)
  ELSE IF kind = "num" THEN NumVal(i)
  ELSE StrVal("north")

\* the x column of the result set, one cell per row
ChartData(kind, n) == [i \in 1..n |-> XCell(kind, i)]

\* detectNumericFields over the keys x, y1..y4 (and _index, beyond the slice)
detectNumericFields(xCells) ==
  (IF \A i \in 1..Len(xCells) : xCells[i].t \in {"num", "null", "undef"}
     THEN <<"x">> ELSE <<>>) \o YColumns

selectYAxisFields(requestedYAxis, numeric) ==
  IF Len(requestedYAxis) > 0 THEN requestedYAxis
  ELSE SubSeq(numeric, 1, Min(Y_SLICE, Len(numeric)))

\* isTimeSeries: some row after the first whose x value makes a valid Date
isTimeSeries(xCells) ==
  \E i \in 2..Len(xCells) : ~TimeOf(xCells[i]).nan

inferChartType(xCells, yAxisFields) ==
  IF Len(yAxisFields) > MANY_SERIES THEN "bar"
  ELSE IF isTimeSeries(xCells) THEN (IF Len(yAxisFields) > 1 THEN "line" ELSE "area")
  ELSE IF Len(yAxisFields) = 2 THEN "scatter"
  ELSE "bar"

selectChartType(requestedType, xCells, yAxisFields) ==
  IF requestedType # Undefined THEN requestedType
  ELSE inferChartType(xCells, yAxisFields)

Chart(type, yAxisFields) == [kind |-> "chart", type |-> type, yAxisFields |-> yAxisFields]

\* generateChart with params.xAxis = 'x', a key of the rows
generateChart(requestedType, requestedYAxis, xCells) ==
  IF Len(xCells) = 0
    THEN Chart(IF requestedType # Undefined THEN requestedType ELSE "bar", <<>>)
  ELSE LET yAxisFields == selectYAxisFields(requestedYAxis, detectNumericFields(xCells))
       IN IF Len(yAxisFields) = 0
            THEN Chart(IF requestedType # Undefined THEN requestedType ELSE "bar", <<>>)
            ELSE Chart(selectChartType(requestedType, xCells, yAxisFields), yAxisFields)

InitChart ==
  /\ pc = "call"
  /\ \E kind \in XKinds, n \in 0..MaxChartRows, k \in 0..Len(YColumns),
        requestedType \in {Undefined, "pie"} :
       input = [fn |-> "generateChart", chartType |-> requestedType,
                xKind |-> kind, yAxis |-> SubSeq(YColumns, 1, k),
                data |-> ChartData(kind, n)]
  /\ outcome = NotRun
  /\ call = NoCall
  /\ validation = NotRun
  /\ execution = NoExecution
  /\ response = "none"

CallGenerateChart ==
  /\ pc = "call"
  /\ input.fn = "generateChart"
  /\ outcome' = generateChart(input.chartType, input.yAxis, input.data)
  /\ pc' = "returned"
  /\ UNCHANGED <<input, call, validation, execution, response>>

NextChart == CallGenerateChart

SpecChart == InitChart /\ [][NextChart]_vars

\* a chart was made from a non-empty result set, with no type requested
ChartInferred ==
  /\ pc = "returned" /\ input.fn = "generateChart"
  /\ input.chartType = Undefined /\ Len(input.data) > 0
  /\ Len(outcome.yAxisFields) > 0

\* C23: with no chart type requested the type is bar for more than 3
\* y-fields; otherwise area (one y-field) or line (several) when the x-axis
\* holds dates; otherwise scatter for exactly 2 fields; otherwise bar. A date
\* x-axis with two y-fields gives 'line' for every non-empty result set, and
\* an x-axis that holds no dates is never taken as date-like.
C23_InferredChartType ==
  ChartInferred =>
    outcome.type =
      (IF Len(outcome.yAxisFields) > 3 THEN "bar"
       ELSE IF input.xKind = "date"
         THEN (IF Len(outcome.yAxisFields) > 1 THEN "line" ELSE "area")
       ELSE IF Len(outcome.yAxisFields) = 2 THEN "scatter"
       ELSE "bar")

\* ---------------------------------------------------------------------
\* What executeQueryWithAggregations makes of the rows the store returns:
\* the aggregation results and the groupedBy map.

TableRow(region, channel, amount) ==
  [region |-> StrVal(region), channel |-> StrVal(channel), amount |-> NumVal(amount)]

\* the rows the table holds, in the order the store scans them
TableCandidates ==
  { <<>>,
    <<TableRow("north", "web", 5)>>,
    <<TableRow("north", "web", 5), TableRow("north", "shop", 7)>>,
    <<TableRow("north", "web", 5), TableRow("south", "web", 7), TableRow("north", "web", 1)>>,
    <<TableRow("a::b", "c", 5), TableRow("a", "b::c", 7)>>,
    <<TableRow("a::b", "c", 5), TableRow("a", "b::c", 7), TableRow("a", "c", 2)>> }

ShapeAggregations ==
  { <<>>,
    <<[field |-> "amount", function |-> "sum"]>>,
    <<[field |-> "amount", function |-> "min"]>>,
    <<[field |-> "amount", function |-> "count"], [field |-> "region", function |-> "count"]>>,
    <<[field |-> "amount", function |-> "sum"], [field |-> "amount", function |-> "max"]>>,
    <<[field |-> "amount", function |-> "max"], [field |-> "amount", function |-> "min"]>> }

ShapeGroupBy == { <<>>, <<"region">>, <<"region", "channel">> }

\* the column an aggregation is selected AS
aggAlias(agg) == agg.field \o "_agg"

\* the value the store computes for an aggregate over rows: COUNT counts,
\* SUM is coalesced to 0, MIN and MAX of no rows are NULL
aggValue(agg, rows) ==
  LET nums == [i \in 1..Len(rows) |-> rows[i][agg.field].n]
  IN IF agg.function = "count" THEN NumVal(Len(rows))
     ELSE IF agg.function = "sum" THEN NumVal(SumSeq(nums))
     ELSE IF Len(rows) = 0 THEN NullVal
     ELSE IF agg.function = "min"
       THEN NumVal(CHOOSE v \in {nums[i] : i \in 1..Len(nums)} :
                     \A i \in 1..Len(nums) : v <= nums[i])
     ELSE NumVal(CHOOSE v \in {nums[i] : i \in 1..Len(nums)} :
                   \A i \in 1..Len(nums) : v >= nums[i])

\* the rows of the table that fall into the group of row k
groupRows(rows, groupBy, k) ==
  SelectSeq(rows, LAMBDA r : \A c \in 1..Len(groupBy) : r[groupBy[c]] = rows[k][groupBy[c]])

\* one result row: the aggregate columns, a later one replacing an earlier one
\* of the same alias, and the group columns of row k
resultRow(rows, aggregations, groupBy, k) ==
  LET members == IF Len(groupBy) = 0 THEN rows ELSE groupRows(rows, groupBy, k)
      aliases == {aggAlias(aggregations[a]) : a \in 1..Len(aggregations)}
      groupCols == {groupBy[c] : c \in 1..Len(groupBy)}
  IN [name \in aliases \cup groupCols |->
        IF name \in aliases
          THEN aggValue(aggregations[CHOOSE a \in 1..Len(aggregations) :
                                       /\ aggAlias(aggregations[a]) = name
                                       /\ \A b \in (a + 1)..Len(aggregations) :
                                            aggAlias(aggregations[b]) # name],
                        members)
          ELSE rows[k][name]]

\* query.execute() for a query with aggregations or groupBy: one row per group
\* in the order the groups are first met, one row in all without groupBy
storeExecute(rows, aggregations, groupBy) ==
  IF Len(groupBy) = 0
    THEN <<resultRow(rows, aggregations, groupBy, 1)>>
    ELSE LET firsts == SelectSeq([k \in 1..Len(rows) |-> k],
                         LAMBDA k : \A j \in 1..(k - 1) :
                           \E c \in 1..Len(groupBy) : rows[j][groupBy[c]] # rows[k][groupBy[c]])
         IN [g \in 1..Len(firsts) |-> resultRow(rows, aggregations, groupBy, firsts[g])]

\* String(value) of a cell
StringOf(cell) ==
  IF cell.t = "str" THEN cell.s
  ELSE IF cell.t = "null" THEN "null"
  ELSE IF cell.t = "undef" THEN "undefined"
  ELSE ToString(cell.n)

\* parts.join('::')
RECURSIVE joinColons(_)
joinColons(parts) ==
  IF Len(parts) = 0 THEN ""
  ELSE IF Len(parts) = 1 THEN parts[1]
  ELSE parts[1] \o "::" \o joinColons(Tail(parts))

groupKey(row, groupBy) ==
  joinColons([c \in 1..Len(groupBy) |->
                StringOf(IF groupBy[c] \in DOMAIN row THEN row[groupBy[c]] ELSE UndefVal)])

\* aggResults (lines 269-279): an entry per aggregation whose column of the
\* first row holds a number
aggResults(results, aggregations) ==
  IF Len(aggregations) > 0 /\ Len(results) > 0
    THEN LET firstRow == results[1]
             value(agg) == IF aggAlias(agg) \in DOMAIN firstRow
                             THEN firstRow[aggAlias(agg)] ELSE UndefVal
             kept == SelectSeq(aggregations, LAMBDA agg : value(agg).t = "num")
         IN [i \in 1..Len(kept) |->
               [field |-> kept[i].field, function |-> kept[i].function,
                value |-> value(kept[i]).n]]
    ELSE <<>>

\* groupedData (lines 281-290): the rows of each group key, in result order
groupedData(results, groupBy) ==
  IF Len(groupBy) > 0 /\ Len(results) > 0
    THEN [key \in {groupKey(results[i], groupBy) : i \in 1..Len(results)} |->
            SelectSeq(results, LAMBDA row : groupKey(row, groupBy) = key)]
    ELSE << >>

InitShape ==
  /\ pc = "call"
  /\ \E rows \in TableCandidates, aggregations \in ShapeAggregations,
        groupBy \in ShapeGroupBy :
       /\ Len(aggregations) + Len(groupBy) > 0
       /\ input = [fn |-> "queryDatabase", table |-> rows,
                   aggregations |-> aggregations, groupBy |-> groupBy]
  /\ outcome = NotRun
  /\ call = NoCall
  /\ validation = NotRun
  /\ execution = NoExecution
  /\ response = "none"

\* executeQueryWithAggregations for an intent with aggregations or groupBy and
\* no filters, limit or page
CallQueryDatabaseRows ==
  /\ pc = "call"
  /\ input.fn = "queryDatabase"
  /\ LET results == storeExecute(input.table, input.aggregations, input.groupBy)
     IN outcome' = [kind |-> "result", data |-> results,
                    aggregations |-> aggResults(results, input.aggregations),
                    groupedBy |-> groupedData(results, input.groupBy)]
  /\ pc' = "returned"
  /\ UNCHANGED <<input, call, validation, execution, response>>

NextShape == CallQueryDatabaseRows

SpecShape == InitShape /\ [][NextShape]_vars

RowsReturned ==
  pc = "returned" /\ input.fn = "queryDatabase" /\ Len(outcome.data) > 0

\* C24: with groupBy present, groupedBy is a partition of the returned rows:
\* every returned row is in exactly one group, and two rows are in the same
\* group exactly when they agree on the stringified value of every groupBy
\* column.
C24_GroupedByIsPartition ==
  (RowsReturned /\ Len(input.groupBy) > 0) =>
    LET groups == outcome.groupedBy
        groupsOf(row) == { key \in DOMAIN groups :
                            \E m \in 1..Len(groups[key]) : groups[key][m] = row }
    IN \A i, j \in 1..Len(outcome.data) :
         /\ Cardinality(groupsOf(outcome.data[i])) = 1
         /\ (groupsOf(outcome.data[i]) = groupsOf(outcome.data[j]))
              <=> \A c \in 1..Len(input.groupBy) :
                    StringOf(outcome.data[i][input.groupBy[c]])
                      = StringOf(outcome.data[j][input.groupBy[c]])

\* C25: with aggregations and a returned row, the aggregations list has
\* exactly one entry per requested aggregation, in order, each with that
\* aggregation's own field, function and computed value.
C25_OneEntryPerAggregation ==
  (RowsReturned /\ Len(input.aggregations) > 0) =>
    /\ Len(outcome.aggregations) = Len(input.aggregations)
    /\ \A a \in 1..Len(input.aggregations) :
         LET members == IF Len(input.groupBy) = 0 THEN input.table
                        ELSE groupRows(input.table, input.groupBy, 1)
         IN /\ outcome.aggregations[a].field = input.aggregations[a].field
            /\ outcome.aggregations[a].function = input.aggregations[a].function
            /\ NumVal(outcome.aggregations[a].value)
                 = aggValue(input.aggregations[a], members)

\* ---------------------------------------------------------------------
\* The alert rate limiter. Its module state is held in `execution`
\* (rateLimitMemory, suppressionMemory, batchMemory and the pending timers),
\* the alerts table of the store in `outcome`, the suspended flushBatch and
\* flushAllBatches calls in `call`, what the callers may still do in `input`,
\* and the history of every queued alert in `validation`.
\*
\* Every alert is delivered inside one hour, so no rate-limit window and no
\* suppression expires. A call runs without interruption up to its next
\* `await` of the store: the awaits of checkRateLimit and checkSuppression
\* resume in the same microtask run, before any timer or I/O callback.

MaxDelivers == 3
MaxStoreFailures == 1
MaxFlushAll == 1

MAX_ALERTS_PER_HOUR == 5

TENANT == "t1"

AlertKinds ==
  { [type |-> "anomaly",   metric_name |-> "m1", severity |-> "warning"],
    [type |-> "anomaly",   metric_name |-> "m2", severity |-> "warning"],
    [type |-> "threshold", metric_name |-> "m1", severity |-> "warning"],
    [type |-> "anomaly",   metric_name |-> "m1", severity |-> "critical"] }

\* the alerts stored earlier in the hour
PriorCounts == {0, MAX_ALERTS_PER_HOUR - 1}

PriorAlert(i) ==
  [id |-> 0 - i, type |-> "anomaly", metric_name |-> "h" \o ToString(i), severity |-> "info"]

batchKeyOf(alert) == <<TENANT, alert.type>>

suppressionKeyOf(alert) == <<TENANT, alert.type, alert.metric_name>>

rateLimitMemory == execution.rateLimitMemory
suppressionMemory == execution.suppressionMemory
batchMemory == execution.batchMemory

\* checkRateLimit: a missing tracker is created with count 0
trackerChecked(memory) ==
  IF TENANT \in DOMAIN memory.rateLimitMemory THEN memory
  ELSE [memory EXCEPT !.rateLimitMemory = [t \in {TENANT} |-> [count |-> 0]]]

rateLimitAllowed(memory) ==
  MAX_ALERTS_PER_HOUR - memory.rateLimitMemory[TENANT].count > 0

incrementRateLimit(memory) ==
  IF TENANT \in DOMAIN memory.rateLimitMemory
    THEN [memory EXCEPT !.rateLimitMemory[TENANT].count = @ + 1]
    ELSE memory

checkSuppression(memory, alert) == suppressionKeyOf(alert) \in memory.suppressionMemory

recordSuppression(memory, alert) ==
  [memory EXCEPT !.suppressionMemory = @ \cup {suppressionKeyOf(alert)}]

\* batchMemory.get(batchKey): the positions of the entry of that key
batchAt(memory, key) ==
  { b \in 1..Len(memory.batchMemory) : memory.batchMemory[b].key = key }

batchDeleted(memory, key) ==
  [memory EXCEPT !.batchMemory = SelectSeq(@, LAMBDA entry : entry.key # key)]

\* queueForBatching: a new batch gets a timer; the alert is pushed
queueForBatching(memory, alert) ==
  LET key == batchKeyOf(alert)
  IN IF batchAt(memory, key) = {}
       THEN [memory EXCEPT
               !.batchMemory = Append(@, [key |-> key, id |-> memory.nextId,
                                          alerts |-> <<alert>>]),
               !.timers = @ \cup {[key |-> key, id |-> memory.nextId]},
               !.nextId = @ + 1]
       ELSE LET b == CHOOSE b \in batchAt(memory, key) : TRUE
            IN [memory EXCEPT !.batchMemory[b].alerts = Append(@, alert)]

dedupeKeyOf(alert) == <<alert.metric_name, alert.severity>>

\* deduplicateAlerts: the first alert of every metric_name:severity
RECURSIVE deduplicateAlerts(_)
deduplicateAlerts(alerts) ==
  IF Len(alerts) = 0 THEN <<>>
  ELSE LET front == deduplicateAlerts(SubSeq(alerts, 1, Len(alerts) - 1))
           last == alerts[Len(alerts)]
       IN IF \E i \in 1..Len(front) : dedupeKeyOf(front[i]) = dedupeKeyOf(last)
            THEN front ELSE Append(front, last)

\* a suspended flushBatch call: it awaits storeAlert for deduped[at]; lastId
\* is the batch flushAllBatches reached when the call is made by it
Flush(kind, key, deduped, at, lastId) ==
  [kind |-> kind, key |-> key, deduped |-> deduped, at |-> at, lastId |-> lastId]

\* the loop of flushBatch from deduped[i] on: processAlert returns for an
\* alert that is rate limited or suppressed, and awaits the store for the
\* first alert that is neither; after the last alert the batch is deleted
RECURSIVE flushFrom(_, _, _, _)
flushFrom(memory, key, deduped, i) ==
  IF i > Len(deduped)
    THEN [memory |-> batchDeleted(memory, key), handed |-> {}, at |-> 0]
  ELSE LET checked == trackerChecked(memory)
       IN IF ~rateLimitAllowed(checked) \/ checkSuppression(checked, deduped[i])
            THEN LET rest == flushFrom(checked, key, deduped, i + 1)
                 IN [rest EXCEPT !.handed = @ \cup {deduped[i].id}]
            ELSE [memory |-> checked, handed |-> {deduped[i].id}, at |-> i]

Ran(memory, handed, dropped, suspended) ==
  [memory |-> memory, handed |-> handed, dropped |-> dropped, suspended |-> suspended]

\* flushBatch(tenantId, batchKey) up to its first await of the store
flushBatch(memory, kind, key, lastId) ==
  IF batchAt(memory, key) = {} THEN Ran(memory, {}, {}, {})
  ELSE LET batch == memory.batchMemory[CHOOSE b \in batchAt(memory, key) : TRUE]
           deduped == deduplicateAlerts(batch.alerts)
           run == flushFrom(memory, key, deduped, 1)
       IN Ran(run.memory, run.handed,
              {batch.alerts[i].id : i \in 1..Len(batch.alerts)}
                \ {deduped[i].id : i \in 1..Len(deduped)},
              IF run.at = 0 THEN {} ELSE {Flush(kind, key, deduped, run.at, lastId)})

\* the loop of flushAllBatches over batchMemory.entries(), after the entry
\* lastId: clearTimeout, then flushBatch, until a flushBatch awaits the store
RECURSIVE flushAllFrom(_, _)
flushAllFrom(memory, lastId) ==
  LET later == { b \in 1..Len(memory.batchMemory) : memory.batchMemory[b].id > lastId }
  IN IF later = {} THEN Ran(memory, {}, {}, {})
     ELSE LET b == CHOOSE b \in later : \A c \in later : b <= c
              entry == memory.batchMemory[b]
              cleared == [memory EXCEPT !.timers = { t \in @ : t.id # entry.id }]
              ran == flushBatch(cleared, "all", entry.key, entry.id)
          IN IF ran.suspended # {} THEN ran
             ELSE LET rest == flushAllFrom(ran.memory, entry.id)
                  IN Ran(rest.memory, ran.handed \cup rest.handed,
                         ran.dropped \cup rest.dropped, rest.suspended)

NoHistory == [queued |-> {}, handed |-> {}, dropped |-> {}]

InitAlerts ==
  /\ pc = "alerts"
  /\ \E prior \in PriorCounts :
       /\ input = [fn |-> "alerts", delivers |-> MaxDelivers,
                   failures |-> MaxStoreFailures, flushAlls |-> MaxFlushAll,
                   prior |-> prior]
       /\ outcome = [i \in 1..prior |-> PriorAlert(i)]
       /\ execution =
            [rateLimitMemory |-> IF prior = 0 THEN [t \in {} |-> [count |-> 0]]
                                 ELSE [t \in {TENANT} |-> [count |-> prior]],
             suppressionMemory |-> {suppressionKeyOf(PriorAlert(i)) : i \in 1..prior},
             batchMemory |-> <<>>,
             timers |-> {},
             nextId |-> 1]
  /\ call = {}
  /\ validation = NoHistory
  /\ response = "none"

\* what a run of a call leaves behind
Settle(ran, suspendedBefore) ==
  /\ execution' = ran.memory
  /\ call' = suspendedBefore \cup ran.suspended
  /\ validation' = [validation EXCEPT !.handed = @ \cup ran.handed,
                                      !.dropped = @ \cup ran.dropped]

\* deliverAlert(tenantId, alert)
DeliverAlert ==
  /\ pc = "alerts"
  /\ input.delivers > 0
  /\ \E kind \in AlertKinds :
       LET alert == [id |-> MaxDelivers - input.delivers + 1, type |-> kind.type,
                     metric_name |-> kind.metric_name, severity |-> kind.severity]
           checked == trackerChecked(execution)
       IN IF ~rateLimitAllowed(checked) \/ checkSuppression(checked, alert)
            THEN execution' = checked /\ UNCHANGED validation
            ELSE /\ execution' = queueForBatching(checked, alert)
                 /\ validation' = [validation EXCEPT !.queued = @ \cup {alert.id}]
  /\ input' = [input EXCEPT !.delivers = @ - 1]
  /\ UNCHANGED <<pc, outcome, call, response>>

\* the timer of a batch fires: flushBatch(tenantId, batchKey)
BatchTimerFires ==
  /\ pc = "alerts"
  /\ \E timer \in execution.timers :
       Settle(flushBatch([execution EXCEPT !.timers = @ \ {timer}], "timer", timer.key, 0),
              call)
  /\ UNCHANGED <<pc, input, outcome, response>>

\* flushAllBatches()
FlushAllBatches ==
  /\ pc = "alerts"
  /\ input.flushAlls > 0
  /\ Settle(flushAllFrom(execution, 0), call)
  /\ input' = [input EXCEPT !.flushAlls = @ - 1]
  /\ UNCHANGED <<pc, outcome, response>>

\* storeAlert resolves: the rest of processAlert, then the loops go on
StoreAlertResolves ==
  /\ pc = "alerts"
  /\ \E flush \in call :
       LET alert == flush.deduped[flush.at]
           counted == recordSuppression(incrementRateLimit(execution), alert)
           run == flushFrom(counted, flush.key, flush.deduped, flush.at + 1)
           ran == Ran(run.memory, run.handed, {},
                      IF run.at = 0 THEN {} ELSE {[flush EXCEPT !.at = run.at]})
           rest == IF run.at = 0 /\ flush.kind = "all"
                     THEN flushAllFrom(run.memory, flush.lastId)
                     ELSE Ran(run.memory, {}, {}, {})
       IN /\ outcome' = Append(outcome, alert)
          /\ Settle(Ran(rest.memory, ran.handed \cup rest.handed, rest.dropped,
                        ran.suspended \cup rest.suspended),
                    call \ {flush})
  /\ UNCHANGED <<pc, input, response>>

\* storeAlert throws: processAlert, flushBatch and a calling flushAllBatches
\* reject
StoreAlertRejects ==
  /\ pc = "alerts"
  /\ input.failures > 0
  /\ \E flush \in call : call' = call \ {flush}
  /\ input' = [input EXCEPT !.failures = @ - 1]
  /\ UNCHANGED <<pc, outcome, execution, validation, response>>

NextAlerts ==
  \/ DeliverAlert
  \/ BatchTimerFires
  \/ FlushAllBatches
  \/ StoreAlertResolves
  \/ StoreAlertRejects

SpecAlerts == InitAlerts /\ [][NextAlerts]_vars

\* timers fire and the store answers
FairSpecAlerts ==
  /\ SpecAlerts
  /\ WF_vars(BatchTimerFires)
  /\ WF_vars(StoreAlertResolves \/ StoreAlertRejects)

\* C26: for a tenant at most max_alerts_per_hour alerts are stored within one
\* hour, whatever the interleaving of deliverAlert, timer flushes and
\* flushAllBatches.
C26_AtMostFiveStoredPerHour ==
  input.fn = "alerts" => Len(outcome) <= MAX_ALERTS_PER_HOUR

\* C27: within the suppression window no two stored alerts have the same
\* (tenant, type, metric_name).
C27_NoSecondAlertOfSameKey ==
  input.fn = "alerts" =>
    \A i, j \in 1..Len(outcome) :
      suppressionKeyOf(outcome[i]) = suppressionKeyOf(outcome[j]) => i = j

\* C28: every alert appended to a batch is still in its batch, or was handed
\* to processAlert, or was dropped as a duplicate.
C28_NoQueuedAlertLost ==
  input.fn = "alerts" =>
    \A id \in validation.queued :
      \/ id \in validation.handed
      \/ id \in validation.dropped
      \/ \E b \in 1..Len(batchMemory) :
           \E a \in 1..Len(batchMemory[b].alerts) : batchMemory[b].alerts[a].id = id

\* C29: every batch that queueForBatching creates is eventually flushed and
\* removed from batchMemory, also when storeAlert fails.
C29_EveryBatchEventuallyRemoved ==
  \A id \in 1..MaxDelivers :
    (\E b \in 1..Len(batchMemory) : batchMemory[b].id = id)
      ~> ~(\E b \in 1..Len(batchMemory) : batchMemory[b].id = id)

\* ---------------------------------------------------------------------
\* enrichAlert of the alert enrichment layer. Its module state is held in
\* `execution` (rateLimitTracker, enrichmentCache and the clock, in minutes),
\* the call in `input` and what the call gave in `outcome`.

MaxTicks == 13

TICK_MINUTES == 5
RATE_LIMIT_MAX == 5
CACHE_WINDOW_MINUTES == 5
HOUR_MINUTES == 60

EnrichTenants == {"t1", "t2"}

\* the alert of a call, and whether the enrichment API answers or fails
EnrichCalls ==
  { [fn |-> "enrichAlert", tenant_id |-> tenant, metric_name |-> metric,
     severity |-> severity, api |-> api] :
      tenant \in EnrichTenants, metric \in {"m1", "m2"},
      severity \in {"warning", "critical"}, api \in {"ok", "error"} }

generateCacheKey(alert) == <<alert.metric_name, alert.severity>>

Enriched(kind, memory) == [kind |-> kind, memory |-> memory]

\* enrichAlert: checkRateLimit, the cache, the API call and its catch
enrichAlert(memory, alert) ==
  LET tenant == alert.tenant_id
      tracker == memory.rateLimitTracker
      now == memory.now
      windowStart == IF tenant \in DOMAIN tracker THEN tracker[tenant].windowStart ELSE now
      expired == now - windowStart > HOUR_MINUTES
      \* checkRateLimit sets a new window when the old one expired
      checked == IF expired
                   THEN [memory EXCEPT !.rateLimitTracker =
                           [t \in DOMAIN tracker |->
                              IF t = tenant THEN [count |-> 0, windowStart |-> now]
                              ELSE tracker[t]]]
                   ELSE memory
      key == generateCacheKey(alert)
      cache == checked.enrichmentCache
      hit == key \in DOMAIN cache /\ ~(now > cache[key].expires_at)
      \* getCachedEnrichment deletes an expired entry
      looked == IF key \in DOMAIN cache /\ ~hit
                  THEN [checked EXCEPT !.enrichmentCache =
                          [k \in DOMAIN cache \ {key} |-> cache[k]]]
                  ELSE checked
      \* cacheEnrichment, then incrementRateLimit
      counted == [looked EXCEPT
                    !.enrichmentCache =
                      [k \in DOMAIN looked.enrichmentCache \cup {key} |->
                         IF k = key THEN [expires_at |-> now + CACHE_WINDOW_MINUTES]
                         ELSE looked.enrichmentCache[k]],
                    !.rateLimitTracker =
                      [t \in DOMAIN looked.rateLimitTracker \cup {tenant} |->
                         IF t # tenant THEN looked.rateLimitTracker[t]
                         ELSE IF tenant \in DOMAIN looked.rateLimitTracker
                                 /\ ~(now - looked.rateLimitTracker[tenant].windowStart
                                        > HOUR_MINUTES)
                           THEN [looked.rateLimitTracker[tenant] EXCEPT !.count = @ + 1]
                           ELSE [count |-> 1, windowStart |-> now]]]
  IN IF ~expired /\ tenant \notin DOMAIN tracker
       \* `rateLimitTracker.get(tenantId)!.count` of undefined: a TypeError,
       \* thrown outside the try block
       THEN Enriched("rejected", memory)
     ELSE IF ~expired /\ RATE_LIMIT_MAX - tracker[tenant].count <= 0
       THEN Enriched("null", checked)
     ELSE IF hit THEN Enriched("cached", checked)
     ELSE IF alert.api = "ok" THEN Enriched("fresh", counted)
     ELSE Enriched("fallback", looked)

InitEnrich ==
  /\ pc = "enrich"
  /\ input = [fn |-> "none"]
  /\ outcome = [kind |-> "none"]
  /\ execution = [rateLimitTracker |-> [t \in {} |-> [count |-> 0, windowStart |-> 0]],
                  enrichmentCache |-> [k \in {} |-> [expires_at |-> 0]],
                  now |-> 0]
  /\ call = NoCall
  /\ validation = NotRun
  /\ response = "none"

CallEnrichAlert ==
  /\ pc = "enrich"
  /\ \E alert \in EnrichCalls :
       LET done == enrichAlert(execution, alert)
       IN /\ input' = alert
          /\ outcome' = [kind |-> done.kind]
          /\ execution' = done.memory
  /\ UNCHANGED <<pc, call, validation, response>>

\* time passes between calls
ClockTicks ==
  /\ pc = "enrich"
  /\ execution.now < MaxTicks * TICK_MINUTES
  /\ execution' = [execution EXCEPT !.now = @ + TICK_MINUTES]
  /\ UNCHANGED <<pc, input, outcome, call, validation, response>>

NextEnrich == CallEnrichAlert \/ ClockTicks

SpecEnrich == InitEnrich /\ [][NextEnrich]_vars

\* C30: enrichAlert never rejects: it gives null when the limit is used up,
\* the cached or a fresh enrichment otherwise, and the fallback enrichment when
\* the API call fails, also for a tenant that has no tracker entry.
C30_EnrichAlertNeverRejects ==
  input.fn = "enrichAlert" => outcome.kind \in {"null", "cached", "fresh", "fallback"}

====
